---- MODULE Spec2Model ----
(***************************************************************************)
(* A model of the evaluator core of Cakelisp (src/src/Evaluator.cpp): the  *)
(* environment of definitions, references and reference pools, the         *)
(* invocation dispatcher, requirement propagation, the build driver with   *)
(* its compile / link / load phases, and the fixed-point loop of           *)
(* EvaluateResolveReferences.                                              *)
(*                                                                         *)
(* Tokens are abstracted to invocation forms.  A form is either a call     *)
(* (name) or (name (arg)), or a defining form (def name type (body)) that  *)
(* dispatches to one of the built-in defining generators.                  *)
(***************************************************************************)
EXTENDS Integers, Sequences, FiniteSets, TLC

\* ------------------------------------------------------------------ bounds
\* Number of top-level forms of the module.
MaxModuleForms == 3
\* Total number of forms in the outputs of the macros that get loaded.
MaxExpansionForms == 2
\* Number of forms in the output of one macro.
MaxMacroOutput == 2
\* Number of tokens in a token array given to EvaluateGenerateAll
MaxTokens == 7
\* Number of characters in the contents of a token
MaxContents == 2
\* Number of toolchain failures (write, compile, link, load, symbol) of a run.
MaxFaults == 1
\* Number of macros of the wide module, all queued in one build pass.
MaxBuildObjects == 9
\* The count of build passes kept in ghost.passes stops at this number.
MaxPasses == 4
\* Number of calls of addObjectDefinition in a sequence of additions.
MaxAdditions == 4

\* ------------------------------------------------------------- vocabulary
globalDefinitionName == "<global>"
UserNames == {"a", "b"}
NoName == "-"
\* A name that only a macro's output introduces.
ExpansionName == "c"
NameIndex(n) == CASE n = "a" -> 1 [] n = "b" -> 2 [] n = ExpansionName -> 3 [] OTHER -> 0

ObjectTypes == {"Function", "CompileTimeMacro", "CompileTimeGenerator"}
GuessStates == {"None", "Guessed", "Resolved", "WaitingForLoad"}

isCompileTimeObject(type) ==
    type = "CompileTimeMacro" \/ type = "CompileTimeGenerator"

\* An invocation form.  kind = "call": (name) or (name (arg)).
\* kind = "def": a defining form; type is the ObjectType, arg the head of the
\* one invocation of its body (NoName for an empty body).
CallForm(n, a) ==
    [kind |-> "call", name |-> n, type |-> NoName, arg |-> a, bodyArg |-> NoName]
DefForm(n, t, b) ==
    [kind |-> "def", name |-> n, type |-> t, arg |-> b, bodyArg |-> NoName]
\* A defining form whose body is the invocation (b (a)).
DefArgForm(n, t, b, a) ==
    [kind |-> "def", name |-> n, type |-> t, arg |-> b, bodyArg |-> a]
Forms ==
    {CallForm(n, a) : n \in UserNames, a \in UserNames \cup {NoName}}
    \cup {DefForm(n, t, b) : n \in UserNames, t \in {"Function", "CompileTimeMacro"},
                             b \in UserNames \cup {NoName}}
    \cup {DefForm(n, "CompileTimeGenerator", NoName) : n \in UserNames}
    \cup {DefArgForm(n, "CompileTimeMacro", b, a) : n \in UserNames, b \in UserNames,
                                                   a \in UserNames}

\* The forms a macro of the model may output: a call without arguments or a
\* definition with an empty body, of a name of the module or of a function
\* with a name of its own.
ExpansionForms ==
    {f \in Forms : f.arg = NoName} \cup {DefForm(ExpansionName, "Function", NoName)}

\* What a loaded macro does when it is invoked: whether it returns success,
\* whether its output validates, and its output tokens: no form, one form,
\* or a definition followed by invocations of the name it defines.
MacroFuncs ==
    {[succeeded |-> TRUE, balanced |-> TRUE, tokens |-> <<>>],
     [succeeded |-> FALSE, balanced |-> TRUE, tokens |-> <<>>]}
    \cup {[succeeded |-> TRUE, balanced |-> b, tokens |-> <<f>>] :
              b \in BOOLEAN, f \in ExpansionForms}
    \cup {[succeeded |-> TRUE, balanced |-> TRUE,
           tokens |-> <<DefForm(n, t, NoName)>>
                          \o [i \in 1 .. k - 1 |-> CallForm(n, NoName)]] :
              n \in UserNames, t \in ObjectTypes, k \in 2 .. MaxMacroOutput}

\* An output target: the Output of a definition, or the splice Output of a
\* reference.
DefinitionOutput(n) == [definition |-> n, splice |-> 0]
SpliceOutput(id) == [definition |-> NoName, splice |-> id]

ModuleContext == [scope |-> "Module", definitionName |-> NoName]

Put(f, k, v) == (k :> v) @@ f

\* ----------------------------------------------------------- environment
\* findMacro / findGenerator: the tables map a name to the loaded function.
findMacro(env, functionName) == functionName \in DOMAIN env.macros
findGenerator(env, functionName) == functionName \in DOMAIN env.generators

isCompileTimeCodeLoaded(env, name) ==
    IF env.definitions[name].type = "CompileTimeMacro"
    THEN findMacro(env, name)
    ELSE findGenerator(env, name)

\* Appends a fragment to an output buffer.
addOutput(env, output, fragment) ==
    IF output.splice # 0
    THEN [env EXCEPT !.spliceOutputs[output.splice] = Append(@, fragment)]
    ELSE [env EXCEPT !.definitionOutputs[output.definition] = Append(@, fragment)]

addSpliceOutput_AtFront(env, output, id) ==
    LET fragment == [kind |-> "splice", name |-> NoName, ref |-> id]
    IN IF output.splice # 0
       THEN [env EXCEPT !.spliceOutputs[output.splice] = <<fragment>> \o @]
       ELSE [env EXCEPT !.definitionOutputs[output.definition] = <<fragment>> \o @]

addSpliceOutput(env, output, id) ==
    addOutput(env, output, [kind |-> "splice", name |-> NoName, ref |-> id])

\* ghost.held counts, for a splice Output, the emissions of its call site
\* that it holds: every emission into it adds one, clearing it gives 0.
Held(env, id) == IF id \in DOMAIN env.ghost.held THEN env.ghost.held[id] ELSE 0

\* The splice Output id has been filled, or cleared and filled: before is
\* the environment before, after the one after.  ghost.disturbed records
\* whether an Output that existed before, other than that splice Output,
\* is no longer what it was.
Filled(before, after, id) ==
    [after EXCEPT !.ghost.disturbed =
        \/ @
        \/ \E j \in DOMAIN before.spliceOutputs \ {id} :
               after.spliceOutputs[j] # before.spliceOutputs[j]
        \/ \E n \in DOMAIN before.definitionOutputs :
               after.definitionOutputs[n] # before.definitionOutputs[n],
                  !.ghost.held = Put(@, id, Held(after, id) + 1)]

resetGeneratorOutput_Keep(env, id) == env

\* output.source.clear() (and header, functions, imports): the splice Output
\* holds no emission afterwards.
resetGeneratorOutput(env, id) ==
    [env EXCEPT !.spliceOutputs[id] = <<>>,
                !.ghost.held = Put(@, id, 0)]

addObjectDefinition_Overwrite(env, name, type) ==
    [env |-> [env EXCEPT
                 !.definitions = Put(@, name,
                     [type |-> type, isRequired |-> FALSE, isLoaded |-> FALSE,
                      references |-> <<>>]),
                 !.definitionOutputs = Put(@, name, <<>>)],
     ok |-> TRUE]

addObjectDefinition(env, name, type) ==
    IF name \notin DOMAIN env.definitions
    THEN IF findGenerator(env, name) \/ findMacro(env, name)
         THEN [env |-> env, ok |-> FALSE]
         ELSE [env |-> [env EXCEPT
                   !.definitions = Put(@, name,
                       [type |-> type, isRequired |-> FALSE, isLoaded |-> FALSE,
                        references |-> <<>>]),
                   !.definitionOutputs = Put(@, name, <<>>)],
               ok |-> TRUE]
    ELSE [env |-> env, ok |-> FALSE]

\* Registers reference id (an ObjectReference of the heap) under the name it
\* invokes: in the ReferenceStatus of the enclosing definition, when that
\* definition exists, and in the reference pool.  found is whether a
\* ReferenceStatus is returned.
addObjectReference(env, referenceName, id) ==
    LET reference == env.references[id]
        definitionName ==
            IF reference.context.definitionName # NoName
            THEN reference.context.definitionName
            ELSE globalDefinitionName
        found == definitionName \in DOMAIN env.definitions
        withStatus ==
            IF ~found THEN env
            ELSE IF referenceName \notin DOMAIN env.definitions[definitionName].references
            THEN [env EXCEPT
                     !.definitions[definitionName].references =
                         Put(@, referenceName,
                             [guessState |-> "None", references |-> <<id>>]),
                     !.ghost.createdUndefined =
                         IF referenceName \in DOMAIN env.definitions THEN @
                         ELSE @ \cup {<<definitionName, referenceName>>}]
            ELSE [env EXCEPT
                     !.definitions[definitionName].references[referenceName].references =
                         Append(@, id)]
        newPoolEntry == [ref |-> id, isResolved |-> FALSE]
        withPool ==
            IF referenceName \notin DOMAIN withStatus.referencePools
            THEN [withStatus EXCEPT !.referencePools =
                     Put(@, referenceName, <<newPoolEntry>>)]
            ELSE [withStatus EXCEPT !.referencePools[referenceName] =
                     Append(@, newPoolEntry)]
    IN [env |-> withPool, found |-> found, definitionName |-> definitionName]

getNextFreeBuildId(env) == env.nextFreeBuildId + 1

\* ------------------------------------------------------------- evaluator
\* return numErrors == 0;
Succeeded(r) == [env |-> r.env, ok |-> r.numErrors = 0]

\* if (!result) ++numErrors;
CountFailure(r) == [env |-> r.env, numErrors |-> IF r.ok THEN 0 ELSE 1]

\* numErrors += EvaluateGenerate_Recursive(...)
AddErrors(numErrors, r) == [env |-> r.env, numErrors |-> numErrors + r.numErrors]

RECURSIVE HandleInvocation_Recursive(_, _, _, _)
RECURSIVE EvaluateGenerateAll_Recursive(_, _, _, _)
RECURSIVE EvaluateRest(_, _, _, _)
RECURSIVE GuessAgain(_, _, _, _)
RECURSIVE FunctionInvocationGenerator(_, _, _, _)
RECURSIVE DefinitionGenerator(_, _, _, _)

\* The built-in function-invocation generator: emits the call and evaluates
\* the arguments in ExpressionsOnly scope into the same output.
FunctionInvocationGenerator(env, context, form, output) ==
    LET emitted == addOutput(env, output,
                       [kind |-> "invoke", name |-> form.name, ref |-> 0])
        functionInvokeContext == [context EXCEPT !.scope = "ExpressionsOnly"]
        args == IF form.arg = NoName THEN <<>> ELSE <<CallForm(form.arg, NoName)>>
    IN Succeeded(EvaluateGenerateAll_Recursive(emitted, functionInvokeContext,
                                               args, output))

\* The built-in defining generators (defun, defmacro, defgenerator): add the
\* definition, then evaluate its body in the scope of the new definition
\* into the definition's own output.
DefinitionGenerator(env, context, form, output) ==
    IF context.scope # "Module" THEN [env |-> env, ok |-> FALSE]
    ELSE LET added == addObjectDefinition(env, form.name, form.type)
             body == IF form.arg = NoName THEN <<>>
                     ELSE <<CallForm(form.arg, form.bodyArg)>>
         IN IF ~added.ok THEN [env |-> env, ok |-> FALSE]
            ELSE Succeeded(EvaluateGenerateAll_Recursive(added.env,
                     [scope |-> "Body", definitionName |-> form.name],
                     body, DefinitionOutput(form.name)))

KeepExpansion_SharedVector(env, macroOutputTokens) ==
    [env EXCEPT !.macroExpansions =
        IF @ = <<>> THEN <<macroOutputTokens>>
        ELSE [@ EXCEPT ![1] = @ \o macroOutputTokens]]

KeepExpansion_Dropped(env, macroOutputTokens) == env

\* environment.macroExpansions.push_back(macroOutputTokens): every expansion
\* is a vector of its own.
KeepExpansion(env, macroOutputTokens) ==
    [env EXCEPT !.macroExpansions = Append(@, macroOutputTokens)]

GuessAgain_Never(r, newReference, form, id) ==
    [env |-> r.env, ok |-> r.found]

GuessAgain_Always(r, newReference, form, id) ==
    IF ~r.found THEN [env |-> r.env, ok |-> FALSE]
    ELSE FunctionInvocationGenerator(r.env, newReference.context, form,
                                     SpliceOutput(id))

GuessAgain_WhenWaiting(r, newReference, form, id) ==
    IF ~r.found THEN [env |-> r.env, ok |-> FALSE]
    ELSE IF r.env.definitions[r.definitionName].references[form.name].guessState
                \in {"Guessed", "WaitingForLoad"}
    THEN FunctionInvocationGenerator(r.env, newReference.context, form,
                                     SpliceOutput(id))
    ELSE [env |-> r.env, ok |-> TRUE]

\* The end of the unknown-reference path: r is what addObjectReference
\* returned.  A reference whose status is already Guessed is emitted as a
\* function invocation at once.
GuessAgain(r, newReference, form, id) ==
    IF ~r.found THEN [env |-> r.env, ok |-> FALSE]
    ELSE IF r.env.definitions[r.definitionName].references[form.name].guessState
                = "Guessed"
    THEN FunctionInvocationGenerator(
             [r.env EXCEPT !.ghost.held = Put(@, id, Held(r.env, id) + 1)],
             newReference.context, form, SpliceOutput(id))
    ELSE [env |-> r.env, ok |-> TRUE]

\* validateParentheses(*macroOutputTokens)
validateParentheses(macro) == macro.balanced

\* The macro branch of the dispatcher has returned r from the environment
\* env.  ghost.macroCalls lists the invocations of macros: what the macro
\* did, the place in the expansion arenas where a new array stands when the
\* invocation returns (0 when none does), the result, and whether the
\* invocation left the environment as it was.
MacroCalled(env, macro, r) ==
    [r EXCEPT !.env.ghost.macroCalls =
        Append(@, [macro |-> macro,
                   index |-> IF Len(r.env.macroExpansions) > Len(env.macroExpansions)
                             THEN Len(env.macroExpansions) + 1 ELSE 0,
                   ok |-> r.ok,
                   untouched |-> r.env = env])]

IsKnownFunction_AnyDefinition(env, name) == name \in DOMAIN env.definitions

\* findIt != environment.definitions.end() && !isCompileTimeObject(...)
IsKnownFunction(env, name) ==
    /\ name \in DOMAIN env.definitions
    /\ ~isCompileTimeObject(env.definitions[name].type)

\* The fragments of an output target.
OutputOf(env, output) ==
    IF output.splice # 0 THEN env.spliceOutputs[output.splice]
    ELSE env.definitionOutputs[output.definition]

\* The dispatcher has taken route for the invocation form and returns r
\* from the environment env.  ghost.dispatches collects, per dispatch: what
\* the tables and the definitions map held for the name, whether the
\* enclosing definition had a Guessed status for it (and which status it
\* had, "Absent" when none), the route, whether an ObjectReference for the
\* call site was created, whether a function invocation of the name was
\* emitted for the call site (into the output, or into the splice Output of
\* the new reference), whether the splice sentinel of the new reference was
\* put into the output, and the splice Output of the new reference.
Dispatched(env, context, form, output, route, r) ==
    LET id == Len(env.references) + 1
        created ==
            /\ Len(r.env.references) >= id
            /\ r.env.references[id]
                   = [name |-> form.name, arg |-> form.arg, context |-> context]
        invocation == [kind |-> "invoke", name |-> form.name, ref |-> 0]
        next == Len(OutputOf(env, output)) + 1
        definitionName == IF context.definitionName # NoName
                          THEN context.definitionName ELSE globalDefinitionName
        hasStatus == /\ definitionName \in DOMAIN env.definitions
                     /\ form.name \in DOMAIN env.definitions[definitionName].references
    IN [r EXCEPT !.env.ghost.dispatches = @ \cup
           {[name |-> form.name,
             macroTable |-> findMacro(env, form.name),
             generatorTable |-> findGenerator(env, form.name),
             defined |-> IF form.name \in DOMAIN env.definitions
                         THEN env.definitions[form.name].type ELSE NoName,
             guessed |-> /\ definitionName \in DOMAIN env.definitions
                         /\ form.name \in DOMAIN env.definitions[definitionName].references
                         /\ env.definitions[definitionName].references[form.name].guessState
                                = "Guessed",
             status |-> IF hasStatus
                        THEN env.definitions[definitionName].references[form.name].guessState
                        ELSE "Absent",
             route |-> route,
             created |-> created,
             sentinel |-> /\ Len(OutputOf(r.env, output)) >= next
                          /\ OutputOf(r.env, output)[next]
                                 = [kind |-> "splice", name |-> NoName, ref |-> id],
             splice |-> IF created THEN r.env.spliceOutputs[id] ELSE <<>>,
             emitted |-> \/ /\ Len(OutputOf(r.env, output)) >= next
                            /\ OutputOf(r.env, output)[next] = invocation
                         \/ /\ created
                            /\ r.env.spliceOutputs[id] # <<>>
                            /\ r.env.spliceOutputs[id][1] = invocation]}]

HandleInvocation_Recursive(env, context, form, output) ==
    IF form.kind = "def" THEN DefinitionGenerator(env, context, form, output)
    ELSE IF findMacro(env, form.name) THEN
        LET macro == env.macros[form.name]
            kept == KeepExpansion(env, macro.tokens)
        IN Dispatched(env, context, form, output, "macro",
             MacroCalled(env, macro,
               IF ~macro.succeeded THEN [env |-> env, ok |-> FALSE]
               ELSE IF macro.tokens = <<>> THEN [env |-> env, ok |-> TRUE]
               ELSE IF ~validateParentheses(macro) THEN [env |-> env, ok |-> FALSE]
               ELSE Succeeded(EvaluateGenerateAll_Recursive(kept, context,
                                                            macro.tokens, output))))
    ELSE IF findGenerator(env, form.name) THEN
        Dispatched(env, context, form, output, "generator",
            [env |-> addOutput(env, output,
                         [kind |-> "generated", name |-> form.name, ref |-> 0]),
             ok |-> env.generators[form.name]])
    ELSE IF IsKnownFunction(env, form.name) THEN
        Dispatched(env, context, form, output, "function",
            FunctionInvocationGenerator(env, context, form, output))
    ELSE
        \* Unknown reference
        LET id == Len(env.references) + 1
            newReference == [name |-> form.name, arg |-> form.arg, context |-> context]
            allocated == [env EXCEPT !.references = Append(@, newReference),
                                     !.spliceOutputs = Append(@, <<>>),
                                     !.ghost.evaluations = Append(@, 0),
                                     !.ghost.spliceBeforeReset = Append(@, <<>>),
                                     !.ghost.spliceAtEvaluation = Append(@, <<>>)]
            spliced == addSpliceOutput(allocated, output, id)
        IN Dispatched(env, context, form, output, "unknown",
               GuessAgain(addObjectReference(spliced, form.name, id), newReference,
                          form, id))

EvaluateGenerate_Recursive(env, context, form, output) ==
    CountFailure(HandleInvocation_Recursive(env, context, form, output))

\* The rest of the loop over the tokens, after the first invocation.
EvaluateRest(first, context, forms, output) ==
    AddErrors(first.numErrors,
              EvaluateGenerateAll_Recursive(first.env, context, forms, output))

EvaluateGenerateAll_Recursive(env, context, forms, output) ==
    IF forms = <<>> THEN [env |-> env, numErrors |-> 0]
    ELSE EvaluateRest(EvaluateGenerate_Recursive(env, context, Head(forms), output),
                      context, Tail(forms), output)

\* ------------------------------------------------ requirement propagation
\* One sweep of the for loop over environment.definitions: definitions are
\* visited in the sequence order; a definition marked required earlier in
\* the sweep already infects its references later in the same sweep.
RECURSIVE PropagateSweep(_, _)
PropagateSweep(acc, order) ==
    IF order = <<>> THEN acc
    ELSE LET name == Head(order)
             definition == acc.env.definitions[name]
             infected ==
                 IF definition.isRequired
                 THEN {n \in DOMAIN definition.references :
                          n \in DOMAIN acc.env.definitions
                          /\ ~acc.env.definitions[n].isRequired}
                 ELSE {}
             marked == [n \in DOMAIN acc.env.definitions |->
                          IF n \in infected
                          THEN [acc.env.definitions[n] EXCEPT !.isRequired = TRUE]
                          ELSE acc.env.definitions[n]]
         IN PropagateSweep(
                [env |-> [acc.env EXCEPT !.definitions = marked],
                 numRequiresStatusChanged |->
                     acc.numRequiresStatusChanged + Cardinality(infected)],
                Tail(order))

RECURSIVE SetToSeq(_)
SetToSeq(S) ==
    IF S = {} THEN <<>>
    ELSE LET x == CHOOSE y \in S : TRUE IN <<x>> \o SetToSeq(S \ {x})

PropagateRequiredToReferences_OneSweep(env) ==
    PropagateSweep([env |-> env, numRequiresStatusChanged |-> 0],
                   SetToSeq(DOMAIN env.definitions)).env

RECURSIVE PropagateRequiredToReferences(_)
PropagateRequiredToReferences(env) ==
    LET swept == PropagateSweep([env |-> env, numRequiresStatusChanged |-> 0],
                                SetToSeq(DOMAIN env.definitions))
    IN IF swept.numRequiresStatusChanged # 0
       THEN PropagateRequiredToReferences(swept.env)
       ELSE swept.env

\* ------------------------------------------------------- readiness check
FormOfReference(reference) == CallForm(reference.name, reference.arg)

\* for (i = 0; i < references.size(); ++i) FunctionInvocationGenerator(...):
\* the list is read again at every index, since an emission can append to it.
\* canBuild = FunctionInvocationGenerator(...) && canBuild
Invoked(acc, r, id) ==
    [acc EXCEPT !.env = Filled(acc.env, r.env, id), !.canBuild = acc.canBuild /\ r.ok,
                !.emissionFailed = acc.emissionFailed \/ ~r.ok]

RECURSIVE InvokeReferences(_, _, _, _)
InvokeReferences(acc, definitionName, referenceName, i) ==
    LET list == acc.env.definitions[definitionName].references[referenceName].references
    IN IF i > Len(list) THEN acc
       ELSE LET id == list[i]
                reference == acc.env.references[id]
            IN InvokeReferences(
                   Invoked(acc, FunctionInvocationGenerator(acc.env, reference.context,
                                    FormOfReference(reference), SpliceOutput(id)), id),
                   definitionName, referenceName, i + 1)

\* referenceStatus.guessState = state.  ghost.transitions collects every
\* change <<from, to>> that an assignment makes to a status.
WriteGuessState(env, definitionName, referenceName, state) ==
    LET from == env.definitions[definitionName].references[referenceName].guessState
    IN [env EXCEPT
           !.definitions[definitionName].references[referenceName].guessState = state,
           !.ghost.transitions = IF from = state THEN @ ELSE @ \cup {<<from, state>>}]

SetGuessState_Regressing(env, definitionName, referenceName, state) ==
    WriteGuessState(env, definitionName, referenceName,
                    IF state = "Resolved" THEN "Guessed" ELSE state)

SetGuessState(env, definitionName, referenceName, state) ==
    WriteGuessState(env, definitionName, referenceName, state)

MarkResolved_Dirtying(invoked, definitionName, referenceName) ==
    [invoked EXCEPT
        !.env = SetGuessState(invoked.env, definitionName, referenceName, "Resolved"),
        !.guessMaybeDirtiedReferences = TRUE]

\* A reference to a known function, once its invocations are emitted.
MarkResolved(invoked, definitionName, referenceName) ==
    [invoked EXCEPT
        !.env = SetGuessState(invoked.env, definitionName, referenceName, "Resolved")]

\* A reference to an undefined name, once its invocations are emitted as a
\* guess.  ghost.guessLog lists the guesses of the build driver, and rounds
\* counts them per scan of the check.
MarkGuessed(invoked, definitionName, referenceName) ==
    [invoked EXCEPT
        !.env = [SetGuessState(invoked.env, definitionName, referenceName, "Guessed")
                    EXCEPT !.ghost.guessLog =
                               Append(@, <<definitionName, referenceName>>)],
        !.rounds[Len(invoked.rounds)] = @ + 1,
        !.hasRelevantChangeOccurred = TRUE,
        !.hasGuessedRefs = TRUE,
        !.guessMaybeDirtiedReferences = TRUE]

\* The loop body for a ReferenceStatus whose name has a definition.
CheckKnownReference(acc, definitionName, referenceName) ==
    LET env == acc.env
        referenceStatus == env.definitions[definitionName].references[referenceName]
    IN IF isCompileTimeObject(env.definitions[referenceName].type)
       THEN IF env.definitions[referenceName].isLoaded
            THEN [acc EXCEPT
                     !.env = SetGuessState(env, definitionName, referenceName, "Resolved"),
                     !.hasRelevantChangeOccurred =
                         acc.hasRelevantChangeOccurred
                         \/ referenceStatus.guessState # "Resolved"]
            ELSE [acc EXCEPT
                     !.env = SetGuessState(env, definitionName, referenceName,
                                           "WaitingForLoad"),
                     !.canBuild = FALSE]
       ELSE IF env.definitions[referenceName].type = "Function"
               /\ referenceStatus.guessState # "Resolved"
       THEN MarkResolved(InvokeReferences(acc, definitionName, referenceName, 1),
                         definitionName, referenceName)
       ELSE acc

\* The loop body for a ReferenceStatus whose name has no definition.
CheckUnknownReference(acc, definitionName, referenceName) ==
    LET referenceStatus ==
            acc.env.definitions[definitionName].references[referenceName]
    IN IF referenceStatus.guessState = "None"
       THEN MarkGuessed(InvokeReferences(acc, definitionName, referenceName, 1),
                        definitionName, referenceName)
       ELSE IF referenceStatus.guessState = "Guessed"
       THEN [acc EXCEPT !.hasGuessedRefs = TRUE]
       ELSE acc

CheckReference_AsUnknown(acc, definitionName, referenceName) ==
    CheckUnknownReference(acc, definitionName, referenceName)

\* What the loop body finds for a ReferenceStatus before it acts: the type
\* of the definition of the name (NoName when there is none), whether that
\* definition is loaded, and the guessState.
Scanned(env, definitionName, referenceName) ==
    [name |-> referenceName,
     type |-> IF referenceName \in DOMAIN env.definitions
              THEN env.definitions[referenceName].type ELSE NoName,
     isLoaded |-> referenceName \in DOMAIN env.definitions
                  /\ env.definitions[referenceName].isLoaded,
     guessState |-> env.definitions[definitionName].references[referenceName].guessState]

\* The body of the loop over referencesToCheck for one ReferenceStatus.
\* scans collects what each iteration found.
CheckReference(acc, definitionName, referenceName) ==
    LET found == [acc EXCEPT !.scans = @ \cup
                      {Scanned(acc.env, definitionName, referenceName)}]
    IN IF referenceName \in DOMAIN acc.env.definitions
       THEN CheckKnownReference(found, definitionName, referenceName)
       ELSE CheckUnknownReference(found, definitionName, referenceName)

RECURSIVE CheckReferencesToCheck(_, _, _)
CheckReferencesToCheck(acc, definitionName, referencesToCheck) ==
    IF referencesToCheck = <<>> THEN acc
    ELSE CheckReferencesToCheck(
             CheckReference(acc, definitionName, Head(referencesToCheck)),
             definitionName, Tail(referencesToCheck))

\* The do ... while (guessMaybeDirtiedReferences) loop for one definition.
\* Every round copies definition.references, as it is then, into
\* referencesToCheck.  orders gives, round by round, the iteration order of
\* that unordered_map as an order of all names; the last order serves the
\* rounds that remain.
RECURSIVE CheckDefinitionReferences(_, _, _)
RECURSIVE WhileDirtied(_, _, _)
CheckDefinitionReferences(acc, definitionName, orders) ==
    LET present == DOMAIN acc.env.definitions[definitionName].references
        referencesToCheck == SelectSeq(Head(orders), LAMBDA n : n \in present)
    IN WhileDirtied(CheckReferencesToCheck(
                        [acc EXCEPT !.guessMaybeDirtiedReferences = FALSE,
                                    !.rounds = Append(@, 0)],
                        definitionName, referencesToCheck),
                    definitionName,
                    IF Len(orders) > 1 THEN Tail(orders) ELSE orders)

\* while (guessMaybeDirtiedReferences)
WhileDirtied(scanned, definitionName, orders) ==
    IF scanned.guessMaybeDirtiedReferences
    THEN CheckDefinitionReferences(scanned, definitionName, orders)
    ELSE scanned

LoopContinues_AboveOne(resolved, errors) == errors = 0 /\ resolved > 1

LoopContinues_WhileNoError(resolved, errors) == errors = 0

\* do { ... if (numBuildResolveErrors) break; } while (numReferencesResolved);
LoopContinues(resolved, errors) == errors = 0 /\ resolved # 0

\* The accumulator of the check of one definition, before its first round.
StartCheck(env) ==
    [env |-> env, canBuild |-> TRUE, hasRelevantChangeOccurred |-> FALSE,
     hasGuessedRefs |-> FALSE, guessMaybeDirtiedReferences |-> FALSE,
     scans |-> {}, emissionFailed |-> FALSE, rounds |-> <<>>]

\* The check of the definition name has ended with the accumulator checked.
\* ghost.checks collects, per check: the flags, what each iteration found,
\* the number of guesses in each scan, the names whose status is None when
\* the check ends,
\* and what the definition's references name when the check ends.
Checked(checked, name, queue) ==
    LET env == checked.env
        references == DOMAIN env.definitions[name].references
    IN [type |-> env.definitions[name].type,
        queued |-> queue,
        canBuild |-> checked.canBuild,
        hasGuessedRefs |-> checked.hasGuessedRefs,
        hasRelevantChangeOccurred |-> checked.hasRelevantChangeOccurred,
        scans |-> checked.scans,
        rounds |-> checked.rounds,
        emissionFailed |-> checked.emissionFailed,
        unloadedReference |->
            \E n \in references :
                /\ n \in DOMAIN env.definitions
                /\ isCompileTimeObject(env.definitions[n].type)
                /\ ~env.definitions[n].isLoaded,
        undefinedReference |-> \E n \in references : n \notin DOMAIN env.definitions,
        statusNone |-> {n \in references :
                           env.definitions[name].references[n].guessState = "None"}]

ShouldQueue_AnyType(checked, type) ==
    /\ checked.canBuild
    /\ (~checked.hasGuessedRefs \/ checked.hasRelevantChangeOccurred)

ShouldQueue_IgnoringCanBuild(checked, type) ==
    /\ (~checked.hasGuessedRefs \/ checked.hasRelevantChangeOccurred)
    /\ isCompileTimeObject(type)

ShouldQueue(checked, type) ==
    /\ checked.canBuild
    /\ (~checked.hasGuessedRefs \/ checked.hasRelevantChangeOccurred)
    /\ isCompileTimeObject(type)

\* ------------------------------------------------- resolving pool references
\* The definition a reference was dispatched in.
EnclosingDefinition(reference) ==
    IF reference.context.definitionName # NoName
    THEN reference.context.definitionName
    ELSE globalDefinitionName

\* ghost.siteErrors counts, per enclosing definition, the errors of the
\* evaluations of its call sites after a load.
CountSiteErrors(siteErrors, reference, numErrors) ==
    LET site == EnclosingDefinition(reference)
        before == IF site \in DOMAIN siteErrors THEN siteErrors[site] ELSE 0
    IN IF numErrors = 0 THEN siteErrors ELSE Put(siteErrors, site, before + numErrors)

\* The loop over the reference pool of a definition that was just loaded.
\* reference.isResolved = true; numErrorsOut += result; ++numReferencesResolved
Resolved(acc, name, i, r) ==
    [env |-> [Filled(acc.env, r.env, acc.env.referencePools[name][i].ref)
                 EXCEPT !.referencePools[name][i].isResolved = TRUE,
                        !.ghost.siteErrors =
                            CountSiteErrors(@, acc.env.references[
                                acc.env.referencePools[name][i].ref], r.numErrors)],
     numErrors |-> acc.numErrors + r.numErrors,
     numReferencesResolved |-> acc.numReferencesResolved + 1]

RECURSIVE ResolvePoolReferences(_, _, _)
ResolvePoolReferences(acc, name, i) ==
    LET pool == acc.env.referencePools[name]
    IN IF i > Len(pool) THEN acc
       ELSE IF pool[i].isResolved THEN ResolvePoolReferences(acc, name, i + 1)
       ELSE LET id == pool[i].ref
                reference == acc.env.references[id]
                observed == [acc.env EXCEPT
                    !.ghost.evaluations[id] = @ + 1,
                    !.ghost.spliceBeforeReset[id] = acc.env.spliceOutputs[id],
                    !.ghost.spliceAtEvaluation[id] =
                        resetGeneratorOutput(acc.env, id).spliceOutputs[id]]
                cleared == resetGeneratorOutput(observed, id)
            IN ResolvePoolReferences(
                   Resolved(acc, name, i,
                            EvaluateGenerate_Recursive(cleared, reference.context,
                                FormOfReference(reference), SpliceOutput(id))),
                   name, i + 1)

\* ------------------------------------------------------------ final report
\* The loop over environment.definitions after the fixed-point loop.
FailedToBuild(env) ==
    {n \in DOMAIN env.definitions :
        /\ env.definitions[n].isRequired
        /\ isCompileTimeObject(env.definitions[n].type)
        /\ ~findMacro(env, n) /\ ~findGenerator(env, n)}

MissingDefinitionNames(env, n) ==
    {m \in DOMAIN env.definitions[n].references :
        /\ m \in DOMAIN env.definitions
        /\ isCompileTimeObject(env.definitions[m].type)
        /\ ~isCompileTimeCodeLoaded(env, m)}

RequiredGenerated_All(env) ==
    {n \in DOMAIN env.definitions : ~isCompileTimeObject(env.definitions[n].type)}

RequiredGenerated(env) ==
    {n \in DOMAIN env.definitions :
        env.definitions[n].isRequired /\ ~isCompileTimeObject(env.definitions[n].type)}

RECURSIVE SumOver(_, _)
SumOver(S, f) ==
    IF S = {} THEN 0
    ELSE LET x == CHOOSE y \in S : TRUE IN f[x] + SumOver(S \ {x}, f)

ReportErrors(env) ==
    Cardinality(FailedToBuild(env))
    + SumOver(RequiredGenerated(env),
              [n \in RequiredGenerated(env) |->
                  Cardinality(MissingDefinitionNames(env, n))])

\* ErrorAtToken(*referenceStatus.name, "reference has not been resolved")
UnresolvedReported(env) ==
    UNION {{<<n, m>> : m \in {x \in DOMAIN env.definitions[n].references :
                                 env.definitions[n].references[x].guessState = "None"}} :
           n \in RequiredGenerated(env)}

Omitted(env) == {n \in DOMAIN env.definitions : ~env.definitions[n].isRequired}

\* ------------------------------------------------------------------ state
\* environment                 the EvaluatorEnvironment, with the heap of
\*                             ObjectReferences and of their splice Outputs
\* pc                          the position of the main flow
\* definitionsToCheck          BuildEvaluateReferences: definitions not yet checked
\* definitionsToBuild          BuildEvaluateReferences: the build objects
\* index                       the loop position in definitionsToBuild
\* currentNumProcessesSpawned  the compile loop's wave counter
\* running                     build objects whose subprocess is live
\* numReferencesResolved       result of the current build pass
\* numBuildResolveErrors       EvaluateResolveReferences: accumulated errors
\* faults                      toolchain failures so far
\* libraryMayExist             names whose shared library may be in the cache
\* report                      the result of EvaluateResolveReferences
VARIABLES environment, pc, definitionsToCheck, definitionsToBuild, index,
          currentNumProcessesSpawned, running, numReferencesResolved,
          numBuildResolveErrors, faults, libraryMayExist, report, generateAll

vars == <<environment, pc, definitionsToCheck, definitionsToBuild, index,
          currentNumProcessesSpawned, running, numReferencesResolved,
          numBuildResolveErrors, faults, libraryMayExist, report, generateAll>>

\* No call of EvaluateGenerateAll over a token array is followed.
NoGenerateAll == [returned |-> FALSE]

passVars == <<definitionsToCheck, definitionsToBuild, index,
              currentNumProcessesSpawned, running>>

maxProcessesSpawned == 8

NoReport == [finished |-> FALSE, result |-> FALSE, errors |-> 0,
             failedToBuild |-> {}, unresolved |-> {}, omitted |-> {}]

InitEnvironment ==
    [definitions |-> (globalDefinitionName :>
         [type |-> "Function", isRequired |-> TRUE, isLoaded |-> FALSE,
          references |-> <<>>]),
     definitionOutputs |-> (globalDefinitionName :> <<>>),
     referencePools |-> <<>>,
     references |-> <<>>,
     spliceOutputs |-> <<>>,
     macros |-> <<>>,
     generators |-> <<>>,
     macroExpansions |-> <<>>,
     nextFreeBuildId |-> 0,
     numForms |-> 0,
     numExpansionForms |-> 0,
     ghost |-> [transitions |-> {}, createdUndefined |-> {}, moduleDefinitions |-> {},
                stuck |-> {}, evaluations |-> <<>>, spliceBeforeReset |-> <<>>,
                spliceAtEvaluation |-> <<>>,
                loads |-> <<>>, passes |-> 0,
                moduleForms |-> <<>>, freed |-> <<>>, disturbed |-> FALSE,
                siteErrors |-> <<>>, loadOrder |-> <<>>, notLoaded |-> {},
                macroCalls |-> <<>>, additions |-> <<>>, dispatches |-> {},
                checks |-> {}, guessLog |-> <<>>, held |-> <<>>]]

\* The caller has created the environment with the <global> definition and
\* is about to evaluate the module's top-level forms.
InitModule ==
    /\ environment = InitEnvironment
    /\ pc = "evaluate"
    /\ definitionsToCheck = {}
    /\ definitionsToBuild = <<>>
    /\ index = 0
    /\ currentNumProcessesSpawned = 0
    /\ running = {}
    /\ numReferencesResolved = 0
    /\ numBuildResolveErrors = 0
    /\ faults = 0
    /\ libraryMayExist = UserNames
    /\ report = NoReport
    /\ generateAll = NoGenerateAll

\* ------------------------------------------------------------ input bounds
\* Names are introduced in alphabetical order: a form may mention a name
\* only when every earlier name has been mentioned before.
UsedNames(env) ==
    (DOMAIN env.definitions \ {globalDefinitionName})
    \cup {env.references[i].name : i \in DOMAIN env.references}
    \cup ({env.references[i].arg : i \in DOMAIN env.references} \ {NoName})
    \cup UNION {{env.macros[m].tokens[j].name : j \in DOMAIN env.macros[m].tokens} :
                m \in DOMAIN env.macros}
    \cup (UNION {{env.macros[m].tokens[j].arg : j \in DOMAIN env.macros[m].tokens} :
                 m \in DOMAIN env.macros} \ {NoName})

Mentions(forms) ==
    {forms[j].name : j \in DOMAIN forms}
    \cup ({forms[j].arg : j \in DOMAIN forms} \ {NoName})
    \cup ({forms[j].bodyArg : j \in DOMAIN forms} \ {NoName})

RECURSIVE MentionSeq(_)
MentionSeq(forms) ==
    IF forms = <<>> THEN <<>>
    ELSE <<Head(forms).name>>
         \o (IF Head(forms).arg = NoName THEN <<>> ELSE <<Head(forms).arg>>)
         \o (IF Head(forms).bodyArg = NoName THEN <<>> ELSE <<Head(forms).bodyArg>>)
         \o MentionSeq(Tail(forms))

RECURSIVE IntroducedInOrder(_, _)
IntroducedInOrder(numUsed, names) ==
    IF names = <<>> THEN TRUE
    ELSE /\ NameIndex(Head(names)) <= numUsed + 1
         /\ IntroducedInOrder(IF NameIndex(Head(names)) > numUsed
                              THEN numUsed + 1 ELSE numUsed, Tail(names))

InNameOrder(env, forms) ==
    IntroducedInOrder(Cardinality(UsedNames(env)), MentionSeq(forms))

\* The names a macro's output invokes.
Invokes(macro) ==
    IF macro.succeeded /\ macro.balanced THEN Mentions(macro.tokens) ELSE {}

\* Expanding name does not run into name again: the expansion of a loaded
\* macro is finite.
RECURSIVE ReachableMacros(_, _, _)
ReachableMacros(macros, from, fuel) ==
    IF fuel = 0 THEN from
    ELSE ReachableMacros(macros,
             from \cup UNION {Invokes(macros[m]) : m \in from \cap DOMAIN macros},
             fuel - 1)

ExpansionIsFinite(macros) ==
    \A m \in DOMAIN macros :
        m \notin ReachableMacros(macros, Invokes(macros[m]), Cardinality(DOMAIN macros))

\* A new BuildObject.  ghost records what the build pass did with it: the
\* answer of fileIsMoreRecentlyModified ("unknown" until it is asked), the
\* subprocesses spawned for it, and whether one of its steps failed.
NoBuildHistory == [modified |-> "unknown", compiles |-> 0, links |-> 0, failed |-> FALSE]

NewBuildObject(env, name) ==
    [buildId |-> getNextFreeBuildId(env), status |-> -1, stage |-> "None",
     artifactsName |-> <<>>, dynamicLibraryPath |-> <<>>, buildObjectName |-> <<>>,
     definition |-> name, ghost |-> NoBuildHistory]

\* ----------------------------------------------------------- artifact names
cakelispWorkingDir == "cakelisp_cache"

\* The characters of a name: a name of the model that has a hyphen or an
\* underscore is spelled out, any other name is one piece.
Spelling(name) ==
    CASE name = "m-1" -> <<"m", "-", "1">>
      [] name = "m_1" -> <<"m", "_", "1">>
      [] OTHER -> <<name>>

\* lispNameStyleToCNameStyle(NameStyleMode_Underscores, ...): the name
\* converter turns every hyphen of the lisp-style name into an underscore.
lispNameStyleToCNameStyle(name) ==
    [i \in DOMAIN Spelling(name) |->
        IF Spelling(name)[i] = "-" THEN "_" ELSE Spelling(name)[i]]

\* PrintfBuffer(artifactsName, "comptime_%s", convertedNameBuffer)
ArtifactsName(name) == <<"comptime_">> \o lispNameStyleToCNameStyle(name)

\* PrintfBuffer(..., "%s/%s.cpp" | "%s/%s.o" | "%s/lib%s.so", cakelispWorkingDir,
\*              buildObject.artifactsName.c_str())
ArtifactPath(prefix, artifactsName, extension) ==
    <<cakelispWorkingDir, "/", prefix>> \o artifactsName \o <<extension>>

\* The files the live subprocess of a build object reads or writes: the
\* compiler the source and the object file, the linker the object file and
\* the library.
ProcessFiles(object) ==
    IF object.stage = "Compiling"
    THEN {ArtifactPath("", object.artifactsName, ".cpp"), object.buildObjectName}
    ELSE {object.buildObjectName, object.dynamicLibraryPath}

\* continue: the loop goes on with the next build object.
Continue_Break(i, objects) == Len(objects) + 1

Continue(i, objects) == i + 1

\* ------------------------------------------------------------ wide module
\* A module of MaxBuildObjects macros with empty bodies, each invoked once at
\* the top level, evaluated with an empty cache directory: the state of the
\* first build pass when its check loop has queued every macro.
WideNameList ==
    <<"m-1", "m_1", "m03", "m04", "m05", "m06", "m07", "m08", "m09", "m10",
      "m11", "m12">>

WideNames == SubSeq(WideNameList, 1, MaxBuildObjects)

NameOrdinal(m) == CHOOSE k \in 1 .. MaxBuildObjects : WideNames[k] = m

WideNameSet == {WideNames[k] : k \in 1 .. MaxBuildObjects}

\* The module: (defmacro m01 ...) ... then (m01) ... at the top level.
WideModule ==
    [k \in 1 .. 2 * MaxBuildObjects |->
        IF k <= MaxBuildObjects
        THEN DefForm(WideNames[k], "CompileTimeMacro", NoName)
        ELSE CallForm(WideNames[k - MaxBuildObjects], NoName)]

\* The environment after evaluating WideModule, propagating requirement and
\* checking every definition: each invocation found its macro defined but
\* not loaded (an unknown reference in the global definition, then
\* WaitingForLoad), and each macro, having no references, is queued.
WideEnvironment ==
    [InitEnvironment EXCEPT
        !.definitions =
            [n \in {globalDefinitionName} \cup WideNameSet |->
                IF n = globalDefinitionName
                THEN [type |-> "Function", isRequired |-> TRUE, isLoaded |-> FALSE,
                      references |->
                          [m \in WideNameSet |->
                              [references |-> <<NameOrdinal(m)>>,
                               guessState |-> "WaitingForLoad"]]]
                ELSE [type |-> "CompileTimeMacro", isRequired |-> TRUE,
                      isLoaded |-> FALSE, references |-> <<>>]],
        !.definitionOutputs =
            [n \in {globalDefinitionName} \cup WideNameSet |->
                IF n = globalDefinitionName
                THEN [k \in 1 .. MaxBuildObjects |->
                         [kind |-> "splice", name |-> NoName, ref |-> k]]
                ELSE <<>>],
        !.references =
            [k \in 1 .. MaxBuildObjects |->
                [name |-> WideNames[k], arg |-> NoName, context |-> ModuleContext]],
        !.spliceOutputs = [k \in 1 .. MaxBuildObjects |-> <<>>],
        !.referencePools =
            [m \in WideNameSet |-> <<[ref |-> NameOrdinal(m), isResolved |-> FALSE]>>],
        !.nextFreeBuildId = MaxBuildObjects,
        !.numForms = 2 * MaxBuildObjects,
        !.numExpansionForms = MaxExpansionForms,
        !.ghost.evaluations = [k \in 1 .. MaxBuildObjects |-> 0],
        !.ghost.spliceBeforeReset = [k \in 1 .. MaxBuildObjects |-> <<>>],
        !.ghost.moduleDefinitions = {globalDefinitionName} \cup WideNameSet,
        !.ghost.spliceAtEvaluation = [k \in 1 .. MaxBuildObjects |-> <<>>],
        !.ghost.transitions = {<<"None", "WaitingForLoad">>},
        !.ghost.moduleForms = WideModule,
        !.ghost.passes = 1]

WideBuildObjects ==
    [k \in 1 .. MaxBuildObjects |->
        [buildId |-> k, status |-> -1, stage |-> "None",
         artifactsName |-> <<>>, dynamicLibraryPath |-> <<>>, buildObjectName |-> <<>>,
         definition |-> WideNames[k], ghost |-> NoBuildHistory]]

InitWide ==
    /\ environment = WideEnvironment
    /\ pc = "compile"
    /\ definitionsToCheck = {}
    /\ definitionsToBuild = WideBuildObjects
    /\ index = 1
    /\ currentNumProcessesSpawned = 0
    /\ running = {}
    /\ numReferencesResolved = 0
    /\ numBuildResolveErrors = 0
    /\ faults = MaxFaults
    /\ libraryMayExist = {}
    /\ report = NoReport
    /\ generateAll = NoGenerateAll

\* ------------------------------------------------------------ pair module
\* A module of two macros with empty bodies, each invoked once at the top
\* level: both are queued in the first build pass.
PairModule ==
    <<DefForm("a", "CompileTimeMacro", NoName), DefForm("b", "CompileTimeMacro", NoName),
      CallForm("a", NoName), CallForm("b", NoName)>>

\* The environment when the caller has evaluated PairModule, which is the
\* whole module.
PairEnvironment ==
    [EvaluateGenerateAll_Recursive(InitEnvironment, ModuleContext, PairModule,
                                   DefinitionOutput(globalDefinitionName)).env
        EXCEPT !.numForms = MaxModuleForms,
               !.ghost.moduleForms = PairModule]

InitPair ==
    /\ environment = PairEnvironment
    /\ pc = "evaluate"
    /\ definitionsToCheck = {}
    /\ definitionsToBuild = <<>>
    /\ index = 0
    /\ currentNumProcessesSpawned = 0
    /\ running = {}
    /\ numReferencesResolved = 0
    /\ numBuildResolveErrors = 0
    /\ faults = 0
    /\ libraryMayExist = UserNames
    /\ report = NoReport
    /\ generateAll = NoGenerateAll

\* The caller has created the environment without the <global> definition.
InitBare ==
    /\ environment = [InitEnvironment EXCEPT !.definitions = <<>>]
    /\ pc = "evaluate"
    /\ definitionsToCheck = {}
    /\ definitionsToBuild = <<>>
    /\ index = 0
    /\ currentNumProcessesSpawned = 0
    /\ running = {}
    /\ numReferencesResolved = 0
    /\ numBuildResolveErrors = 0
    /\ faults = 0
    /\ libraryMayExist = UserNames
    /\ report = NoReport
    /\ generateAll = NoGenerateAll

Init == InitModule \/ InitWide \/ InitBare \/ InitPair

\* ---------------------------------------------------------------- actions
\* The caller evaluates one more top-level form of the module; when the
\* evaluation reports an error the caller gives up the module.
EvaluateModuleForm(form) ==
    /\ pc = "evaluate"
    /\ environment.numForms < MaxModuleForms
    /\ InNameOrder(environment, <<form>>)
    /\ \E r \in {EvaluateGenerate_Recursive(environment, ModuleContext, form,
                    DefinitionOutput(globalDefinitionName))} :
          /\ environment' = [r.env EXCEPT !.numForms = @ + 1,
                                          !.ghost.moduleForms = Append(@, form)]
          /\ pc' = IF r.numErrors = 0 THEN pc ELSE "failed"
    /\ UNCHANGED <<passVars, numReferencesResolved, numBuildResolveErrors,
                   faults, libraryMayExist, report>>
    /\ UNCHANGED generateAll

\* The unloaded compile-time definitions that wait for one another: the
\* largest set of them in which every member has a ReferenceStatus naming a
\* member.  ghost.stuck collects the sets found when a build pass begins.
RECURSIVE Waiting(_, _)
Waiting(env, S) ==
    LET kept == {n \in S : DOMAIN env.definitions[n].references \cap S # {}}
    IN IF kept = S THEN S ELSE Waiting(env, kept)

Stuck(env) ==
    Waiting(env, {n \in DOMAIN env.definitions :
                     /\ isCompileTimeObject(env.definitions[n].type)
                     /\ ~env.definitions[n].isLoaded})

\* EvaluateResolveReferences is called.
EvaluateResolveReferences_Enter ==
    /\ pc = "evaluate"
    /\ pc' = "propagate"
    /\ environment' = [environment EXCEPT
                          !.ghost.moduleDefinitions = DOMAIN environment.definitions]
    /\ UNCHANGED <<passVars, numReferencesResolved,
                   numBuildResolveErrors, faults, libraryMayExist, report>>
    /\ UNCHANGED generateAll

\* PropagateRequiredToReferences, then the entry of BuildEvaluateReferences
\* up to the end of the loop that fills definitionsToCheck.
Propagate ==
    /\ pc = "propagate"
    /\ LET env == PropagateRequiredToReferences(environment)
       IN /\ environment' = [env EXCEPT
                                !.ghost.passes = IF @ < MaxPasses THEN @ + 1 ELSE @,
                                !.ghost.stuck = @ \cup Stuck(env)]
          /\ definitionsToCheck' =
                 {n \in DOMAIN env.definitions :
                     env.definitions[n].isRequired /\ ~env.definitions[n].isLoaded}
    /\ definitionsToBuild' = <<>>
    /\ numReferencesResolved' = 0
    /\ pc' = "check"
    /\ UNCHANGED <<index, currentNumProcessesSpawned, running,
                   numBuildResolveErrors, faults, libraryMayExist, report>>
    /\ UNCHANGED generateAll

IterationOrders(S) ==
    {order \in [1 .. Cardinality(S) -> S] :
        \A i, j \in DOMAIN order : i # j => order[i] # order[j]}

\* The iteration orders of definition.references (an unordered_map) in the
\* rounds of the check of one definition: every order of the user names in
\* the first round and in the later ones; one order for the wide module,
\* whose references do not interact (its macros have no output).
ScanOrders(env, name) ==
    LET names == DOMAIN env.definitions[name].references
    IN IF names \subseteq UserNames
       THEN [1 .. 2 -> IterationOrders(UserNames)]
       ELSE {<<SetToSeq(names)>>}

\* One iteration of the loop over definitionsToCheck.
CheckDefinition(name, orders) ==
    /\ pc = "check"
    /\ name \in definitionsToCheck
    /\ \E checked \in {CheckDefinitionReferences(StartCheck(environment),
                                                  name, orders)} :
       LET queue == ShouldQueue(checked, environment.definitions[name].type)
           noted == [checked.env EXCEPT !.ghost.checks =
                         @ \cup {Checked(checked, name, queue)}]
       IN /\ environment' =
                 IF queue
                 THEN [noted EXCEPT !.nextFreeBuildId = getNextFreeBuildId(checked.env)]
                 ELSE noted
          /\ definitionsToBuild' =
                 IF queue
                 THEN Append(definitionsToBuild, NewBuildObject(checked.env, name))
                 ELSE definitionsToBuild
    /\ definitionsToCheck' = definitionsToCheck \ {name}
    \* With nothing to build the compile and link loops have no iteration and
    \* their waits return at once: the flow is at the load loop.
    /\ IF definitionsToCheck' = {}
       THEN /\ pc' = IF definitionsToBuild' = <<>> THEN "load" ELSE "compile"
            /\ index' = 1
            /\ currentNumProcessesSpawned' = 0
       ELSE UNCHANGED <<pc, index, currentNumProcessesSpawned>>
    /\ UNCHANGED <<running, numReferencesResolved, numBuildResolveErrors,
                   faults, libraryMayExist, report>>
    /\ UNCHANGED generateAll

Fault(failed) == failed => faults < MaxFaults
CountFault(failed) == faults' = IF failed THEN faults + 1 ELSE faults

\* One iteration of the compile loop: write the source, then either use the
\* cached library or spawn the compiler.
\*   written   writeGeneratorOutput succeeded
\*   modified  fileIsMoreRecentlyModified(source, library)
\*   started   runProcess started the subprocess
CompileStep(written, modified, started) ==
    /\ pc = "compile"
    /\ index <= Len(definitionsToBuild)
    /\ Fault(~written \/ ~started)
    /\ written \/ (modified /\ started)
    /\ modified \/ started
    /\ ~modified => definitionsToBuild[index].definition \in libraryMayExist
    /\ LET named == [definitionsToBuild EXCEPT
                         ![index].artifactsName =
                             ArtifactsName(definitionsToBuild[index].definition)]
           pathed == [named EXCEPT
                         ![index].buildObjectName =
                             ArtifactPath("", named[index].artifactsName, ".o"),
                         ![index].dynamicLibraryPath =
                             ArtifactPath("lib", named[index].artifactsName, ".so")]
       IN IF ~written
          THEN /\ definitionsToBuild' = [named EXCEPT ![index].ghost.failed = TRUE]
               /\ UNCHANGED <<running, currentNumProcessesSpawned, pc>>
               /\ index' = Continue(index, definitionsToBuild)
          ELSE IF ~modified
          THEN /\ definitionsToBuild' =
                     [pathed EXCEPT ![index].stage = "Linking",
                                    ![index].status = 0,
                                    ![index].ghost.modified = "fresh"]
               /\ UNCHANGED <<running, currentNumProcessesSpawned, pc>>
               /\ index' = Continue(index, definitionsToBuild)
          ELSE /\ definitionsToBuild' =
                     [pathed EXCEPT
                         ![index].stage = "Compiling",
                         ![index].ghost.modified = "stale",
                         ![index].ghost.compiles = IF started THEN @ + 1 ELSE @,
                         ![index].ghost.failed = ~started]
               /\ running' = IF started THEN running \cup {index} ELSE running
               /\ currentNumProcessesSpawned' = currentNumProcessesSpawned + 1
               /\ IF currentNumProcessesSpawned' >= maxProcessesSpawned
                  THEN pc' = "compileWave" /\ index' = index
                  ELSE pc' = pc /\ index' = index + 1
    /\ CountFault(~written \/ ~started)
    /\ UNCHANGED <<environment, definitionsToCheck, numReferencesResolved,
                   numBuildResolveErrors, libraryMayExist, report>>
    /\ UNCHANGED generateAll

\* A compiler or linker subprocess exits with a status.
ProcessExit(object, status) ==
    /\ object \in running
    /\ Fault(status # 0)
    /\ running' = running \ {object}
    /\ definitionsToBuild' =
           [definitionsToBuild EXCEPT ![object].status = status,
                                      ![object].ghost.failed = @ \/ status # 0]
    /\ libraryMayExist' =
           IF definitionsToBuild[object].stage = "Linking" /\ status = 0
           THEN libraryMayExist \cup {definitionsToBuild[object].definition}
           ELSE libraryMayExist
    /\ CountFault(status # 0)
    /\ UNCHANGED <<environment, pc, definitionsToCheck, index,
                   currentNumProcessesSpawned, numReferencesResolved,
                   numBuildResolveErrors, report>>
    /\ UNCHANGED generateAll

AllProcessesClosed_Unchecked == TRUE

\* waitForAllProcessesClosed returns when no subprocess is live.
AllProcessesClosed == running = {}

\* waitForAllProcessesClosed returns: inside the compile loop when a wave is
\* full, after the compile loop, and after the link loop.
WaitForAllProcessesClosed ==
    /\ AllProcessesClosed
    /\ \/ /\ pc = "compileWave"
          /\ pc' = "compile"
          /\ index' = index + 1
       \/ /\ pc = "compile"
          /\ index > Len(definitionsToBuild)
          /\ pc' = "link"
          /\ index' = 1
       \/ /\ pc = "link"
          /\ index > Len(definitionsToBuild)
          /\ pc' = "load"
          /\ index' = 1
    /\ currentNumProcessesSpawned' =
           IF pc = "compileWave" THEN 0 ELSE currentNumProcessesSpawned
    /\ UNCHANGED <<environment, definitionsToCheck, definitionsToBuild, running,
                   numReferencesResolved, numBuildResolveErrors, faults,
                   libraryMayExist, report>>
    /\ UNCHANGED generateAll

\* One iteration of the link loop.
LinkStep(started) ==
    /\ pc = "link"
    /\ index <= Len(definitionsToBuild)
    /\ Fault(~started)
    /\ LET buildObject == definitionsToBuild[index]
       IN IF buildObject.stage # "Compiling" \/ buildObject.status # 0
          THEN /\ started
               /\ UNCHANGED <<definitionsToBuild, running>>
          ELSE /\ definitionsToBuild' =
                      [definitionsToBuild EXCEPT
                          ![index].stage = "Linking",
                          ![index].ghost.links = IF started THEN @ + 1 ELSE @,
                          ![index].ghost.failed = ~started]
               /\ running' = IF started THEN running \cup {index} ELSE running
    /\ index' = Continue(index, definitionsToBuild)
    /\ CountFault(~started)
    /\ UNCHANGED <<environment, pc, definitionsToCheck, currentNumProcessesSpawned,
                   numReferencesResolved, numBuildResolveErrors, libraryMayExist,
                   report>>
    /\ UNCHANGED generateAll

\* What the entry point of a freshly loaded macro may do: any behaviour whose
\* output fits the bound on forms and names, and whose expansion is finite.
LoadableMacroFuncs(env, name) ==
    {macro \in MacroFuncs :
        /\ env.numExpansionForms + Len(macro.tokens) <= MaxExpansionForms
        /\ IF macro.succeeded /\ macro.balanced
           THEN InNameOrder(env, macro.tokens)
           ELSE macro.tokens \in {<<>>, <<CallForm("a", NoName)>>}
        /\ ExpansionIsFinite(Put(env.macros, name, macro))}

LoadCount(env, name) ==
    IF name \in DOMAIN env.ghost.loads THEN env.ghost.loads[name] ELSE 0

InstallCompileTimeFunction_MacroTableOnly(env, name, macro, generatorOk) ==
    [env EXCEPT !.macros = Put(@, name, macro),
                !.numExpansionForms = @ + Len(macro.tokens),
                !.ghost.loads = Put(@, name, LoadCount(env, name) + 1)]

\* environment.macros[name] = ... / environment.generators[name] = ...
InstallCompileTimeFunction(env, name, macro, generatorOk) ==
    LET installed ==
            IF env.definitions[name].type = "CompileTimeMacro"
            THEN [env EXCEPT !.macros = Put(@, name, macro),
                             !.numExpansionForms = @ + Len(macro.tokens)]
            ELSE IF env.definitions[name].type = "CompileTimeGenerator"
            THEN [env EXCEPT !.generators = Put(@, name, generatorOk)]
            ELSE env
    IN [installed EXCEPT !.ghost.loads = Put(@, name, LoadCount(env, name) + 1),
                         !.ghost.loadOrder = Append(@, name)]

Finished_NotLoaded(resolved, name) ==
    [env |-> resolved.env,
     numErrors |-> resolved.numErrors,
     numReferencesResolved |-> resolved.numReferencesResolved,
     stage |-> "Finished"]

\* buildObject.stage = BuildStage_Finished; definition->isLoaded = true
Finished(resolved, name) ==
    [env |-> [resolved.env EXCEPT !.definitions[name].isLoaded = TRUE],
     numErrors |-> resolved.numErrors,
     numReferencesResolved |-> resolved.numReferencesResolved,
     stage |-> "Finished"]

\* The tail of a load-loop iteration once the symbol was found: install the
\* function, resolve the pool of the definition, mark it loaded.
LoadAndResolve(env, name, macro, generatorOk) ==
    LET installed == InstallCompileTimeFunction(env, name, macro, generatorOk)
    IN IF name \notin DOMAIN installed.referencePools
       THEN [env |-> installed, numErrors |-> 0, numReferencesResolved |-> 0,
             stage |-> "ResolvingReferences"]
       ELSE Finished(ResolvePoolReferences(
                         [env |-> installed, numErrors |-> 0,
                          numReferencesResolved |-> 0], name, 1),
                     name)

NotLoaded_MarkedLoaded(env, name) ==
    [env EXCEPT !.ghost.notLoaded = @ \cup {<<name, env.ghost.passes>>},
                !.definitions[name].isLoaded = TRUE]

\* ghost.notLoaded collects the build objects that a load loop passed over
\* or failed to load, with the number of the pass.
NotLoaded(env, name) ==
    [env EXCEPT !.ghost.notLoaded = @ \cup {<<name, env.ghost.passes>>}]

\* One iteration of the load loop.
\*   loaded  loadDynamicLibrary returned a handle
\*   found   getSymbolFromDynamicLibrary returned the function
LoadStep(loaded, found) ==
    /\ pc = "load"
    /\ index <= Len(definitionsToBuild)
    /\ Fault(~loaded \/ ~found)
    /\ loaded \/ found
    /\ LET buildObject == definitionsToBuild[index]
           name == buildObject.definition
       IN IF buildObject.stage # "Linking" \/ buildObject.status # 0
          THEN /\ loaded /\ found
               /\ environment' = NotLoaded(environment, name)
               /\ UNCHANGED <<definitionsToBuild, numReferencesResolved,
                              numBuildResolveErrors>>
          ELSE IF ~loaded \/ ~found
          THEN /\ definitionsToBuild' =
                      [definitionsToBuild EXCEPT ![index].stage = "Loading",
                                                 ![index].ghost.failed = TRUE]
               /\ environment' = NotLoaded(environment, name)
               /\ UNCHANGED <<numReferencesResolved, numBuildResolveErrors>>
          ELSE \E macro \in IF environment.definitions[name].type = "CompileTimeMacro"
                            THEN LoadableMacroFuncs(environment, name)
                            ELSE {CHOOSE m \in MacroFuncs : TRUE},
                  generatorOk \in IF environment.definitions[name].type
                                        = "CompileTimeGenerator"
                                  THEN BOOLEAN ELSE {TRUE} :
               \E r \in {LoadAndResolve(environment, name, macro, generatorOk)} :
                  /\ name \in libraryMayExist
                  /\ environment' = r.env
                  /\ definitionsToBuild' =
                         [definitionsToBuild EXCEPT ![index].stage = r.stage]
                  /\ numReferencesResolved' =
                         numReferencesResolved + r.numReferencesResolved
                  /\ numBuildResolveErrors' = numBuildResolveErrors + r.numErrors
    /\ index' = Continue(index, definitionsToBuild)
    /\ CountFault(~loaded \/ ~found)
    /\ UNCHANGED <<pc, definitionsToCheck, currentNumProcessesSpawned, running,
                   libraryMayExist, report>>
    /\ UNCHANGED generateAll

\* BuildEvaluateReferences returns (its locals go out of scope) and the loop
\* of EvaluateResolveReferences goes round again.
LoopAgain ==
    /\ pc = "load"
    /\ index > Len(definitionsToBuild)
    /\ LoopContinues(numReferencesResolved, numBuildResolveErrors)
    /\ pc' = "propagate"
    /\ definitionsToBuild' = <<>>
    /\ index' = 0
    /\ currentNumProcessesSpawned' = 0
    /\ UNCHANGED <<environment, definitionsToCheck, running, numReferencesResolved,
                   numBuildResolveErrors, faults, libraryMayExist, report>>
    /\ UNCHANGED generateAll

\* BuildEvaluateReferences returns and the loop exits: the report after the
\* loop, and the return value of EvaluateResolveReferences.
ReportAndReturn ==
    /\ pc = "load"
    /\ index > Len(definitionsToBuild)
    /\ ~LoopContinues(numReferencesResolved, numBuildResolveErrors)
    /\ report' = [finished |-> TRUE,
                  result |-> ReportErrors(environment) = 0 /\ numBuildResolveErrors = 0,
                  errors |-> ReportErrors(environment),
                  failedToBuild |-> FailedToBuild(environment),
                  unresolved |-> UnresolvedReported(environment),
                  omitted |-> Omitted(environment)]
    /\ pc' = "done"
    /\ definitionsToBuild' = <<>>
    /\ index' = 0
    /\ currentNumProcessesSpawned' = 0
    /\ UNCHANGED <<environment, definitionsToCheck, running, numReferencesResolved,
                   numBuildResolveErrors, faults, libraryMayExist>>
    /\ UNCHANGED generateAll

\* ---------------------------------------------------------------- teardown
\* for (pool : referencePools) { for (reference : pool) delete spliceOutput; }
\* The log ghost.freed lists what was deleted, in the order of deletion.
RECURSIVE FreePool(_, _)
FreePool(log, pool) ==
    IF pool = <<>> THEN log
    ELSE FreePool(Append(log, [kind |-> "spliceOutput", key |-> Head(pool).ref]),
                  Tail(pool))

RECURSIVE FreePools(_, _, _)
FreePools(log, pools, names) ==
    IF names = <<>> THEN log
    ELSE FreePools(FreePool(log, pools[Head(names)]), pools, Tail(names))

DestroyReferencePools(env) ==
    [env EXCEPT
        !.ghost.freed = FreePools(@, env.referencePools,
                                  SetToSeq(DOMAIN env.referencePools)),
        !.referencePools = <<>>]

\* for (definition : definitions) delete definition.output; definitions.clear()
DestroyDefinitions(env) ==
    [env EXCEPT
        !.ghost.freed =
            @ \o [i \in 1 .. Cardinality(DOMAIN env.definitions) |->
                     [kind |-> "definitionOutput",
                      key |-> SetToSeq(DOMAIN env.definitions)[i]]],
        !.definitions = <<>>]

\* for (macroExpansion : macroExpansions) delete macroExpansion; clear()
DestroyMacroExpansions(env) ==
    [env EXCEPT
        !.ghost.freed =
            @ \o [i \in 1 .. Len(env.macroExpansions) |->
                     [kind |-> "macroExpansion", key |-> i]],
        !.macroExpansions = <<>>]

environmentDestroyInvalidateTokens_ExpansionsFirst(env) ==
    DestroyDefinitions(DestroyReferencePools(DestroyMacroExpansions(env)))

environmentDestroyInvalidateTokens(env) ==
    DestroyMacroExpansions(DestroyDefinitions(DestroyReferencePools(env)))

\* The heap after teardown: the deleted Outputs and the ObjectReferences that
\* the pools and the definitions held are gone, and with them what was
\* observed about them.
Invalidated(env) ==
    [env EXCEPT
        !.definitionOutputs = <<>>,
        !.references = <<>>,
        !.spliceOutputs = <<>>,
        !.ghost = [InitEnvironment.ghost EXCEPT !.freed = env.ghost.freed,
                                                !.transitions = env.ghost.transitions]]

\* The caller is done with the environment, after EvaluateResolveReferences
\* returned or after it gave up the module.
Teardown ==
    /\ pc \in {"done", "failed"}
    /\ environment' = Invalidated(environmentDestroyInvalidateTokens(environment))
    /\ pc' = "destroyed"
    /\ UNCHANGED <<passVars, numReferencesResolved, numBuildResolveErrors,
                   faults, libraryMayExist, report>>
    /\ UNCHANGED generateAll

Next ==
    \/ \E form \in Forms : EvaluateModuleForm(form)
    \/ EvaluateResolveReferences_Enter
    \/ Propagate
    \/ \E name \in definitionsToCheck :
           \E orders \in ScanOrders(environment, name) : CheckDefinition(name, orders)
    \/ \E written, modified, started \in BOOLEAN : CompileStep(written, modified, started)
    \/ \E object \in running : \E status \in {0, 1} : ProcessExit(object, status)
    \/ WaitForAllProcessesClosed
    \/ \E started \in BOOLEAN : LinkStep(started)
    \/ \E loaded, found \in BOOLEAN : LoadStep(loaded, found)
    \/ LoopAgain
    \/ ReportAndReturn
    \/ Teardown

Spec == Init /\ [][Next]_vars

\* ------------------------------------------------- sequences of additions
\* The environment as the caller has set it up before any definition is
\* added: the <global> definition, and the macros and generators it has
\* installed in the tables under names that have no definition.
TableNames == UserNames \cup {ExpansionName}

InitDefinitions ==
    /\ \E builtInMacros \in SUBSET {"a"}, builtInGenerators \in SUBSET {"b"} :
           environment =
               [InitEnvironment EXCEPT
                   !.macros = [n \in builtInMacros |->
                                  [succeeded |-> TRUE, balanced |-> TRUE, tokens |-> <<>>]],
                   !.generators = [n \in builtInGenerators |-> TRUE]]
    /\ pc = "add"
    /\ definitionsToCheck = {}
    /\ definitionsToBuild = <<>>
    /\ index = 0
    /\ currentNumProcessesSpawned = 0
    /\ running = {}
    /\ numReferencesResolved = 0
    /\ numBuildResolveErrors = 0
    /\ faults = 0
    /\ libraryMayExist = {}
    /\ report = NoReport
    /\ generateAll = NoGenerateAll

\* A call of addObjectDefinition.  ghost.additions lists the calls with
\* what they returned.
AddDefinition(name, type) ==
    /\ pc = "add"
    /\ Len(environment.ghost.additions) < MaxAdditions
    /\ \E r \in {addObjectDefinition(environment, name, type)} :
           environment' = [r.env EXCEPT !.ghost.additions =
                              Append(@, [name |-> name, type |-> type, ok |-> r.ok])]
    /\ UNCHANGED <<pc, passVars, numReferencesResolved, numBuildResolveErrors,
                   faults, libraryMayExist, report>>
    /\ UNCHANGED generateAll

NextDefinitions ==
    \E name \in TableNames \cup {globalDefinitionName}, type \in ObjectTypes :
        AddDefinition(name, type)

SpecDefinitions == InitDefinitions /\ [][NextDefinitions]_vars

\* ------------------------------------------- sibling evaluation over tokens
\* EvaluateGenerateAll_Recursive as a function of a token array, a start
\* index and a delimiter template.  Token indices count from 1.
TokenTypes == {"OpenParen", "CloseParen", "Symbol", "String"}

\* The characters of token contents: a quote, a digit, a minus, a dot and a
\* letter; NoChar is the 0 that stands for a missing second character.
Characters == {"'", "1", "-", ".", "a"}
NoChar == "\\0"
Contents == UNION {[1 .. n -> Characters] : n \in 1 .. MaxContents}
PlainContents == <<"a">>

isdigit(char) == char = "1"

\* The nesting after the tokens i .. Len(tokens), starting from depth; -1
\* as soon as a CloseParen has no OpenParen before it.
RECURSIVE NestingFrom(_, _, _)
NestingFrom(tokens, i, depth) ==
    IF depth < 0 THEN -1
    ELSE IF i > Len(tokens) THEN depth
    ELSE NestingFrom(tokens, i + 1,
                     CASE tokens[i] = "OpenParen" -> depth + 1
                       [] tokens[i] = "CloseParen" -> depth - 1
                       [] OTHER -> depth)

\* The token arrays the evaluator is given have passed the tokenizer or
\* validateParentheses: their parentheses are balanced.
TokenArrays ==
    {tokens \in UNION {[1 .. n -> TokenTypes] : n \in 0 .. MaxTokens} :
        NestingFrom(tokens, 1, 0) = 0}

\* FindCloseParenTokenIndex(tokens, startTokenIndex): the index of the
\* CloseParen that matches the OpenParen at startTokenIndex.
RECURSIVE FindCloseParenFrom(_, _, _)
FindCloseParenFrom(tokens, i, depth) ==
    IF i > Len(tokens) THEN Len(tokens) + 1
    ELSE IF tokens[i] = "OpenParen" THEN FindCloseParenFrom(tokens, i + 1, depth + 1)
    ELSE IF tokens[i] = "CloseParen"
    THEN IF depth = 1 THEN i ELSE FindCloseParenFrom(tokens, i + 1, depth - 1)
    ELSE FindCloseParenFrom(tokens, i + 1, depth)

FindCloseParenTokenIndex(tokens, startTokenIndex) ==
    FindCloseParenFrom(tokens, startTokenIndex, 0)

NeedsDelimiter_Always(run, currentTokenIndex) == run.delimiterTemplate

\* if (delimiterTemplate && currentTokenIndex != startTokenIndex)
NeedsDelimiter(run, currentTokenIndex) ==
    run.delimiterTemplate /\ currentTokenIndex # run.startTokenIndex

\* ExpectEvaluatorScope(..., context, expectedScope)
ExpectEvaluatorScope(scope, expectedScope) == scope = expectedScope

\* A fragment of the output: its kind, the token it points back to, its
\* modifier and its string.
Fragment(kind, startToken, modifier, contents) ==
    [kind |-> kind, startToken |-> startToken, modifier |-> modifier,
     contents |-> contents]

addStringOutput(run, contents, modifier, token) ==
    [run EXCEPT !.output = Append(@, Fragment("string", token, modifier, contents))]

addLangTokenOutput(run, modifier, token) ==
    [run EXCEPT !.output = Append(@, Fragment("langToken", token, modifier, <<>>))]

IsConstant_AnyMinus(contents) ==
    contents[1] = "'" \/ isdigit(contents[1]) \/ contents[1] = "-"

\* firstChar == '\'' || isdigit(firstChar) ||
\* (firstChar == '-' && (secondChar == '.' || isdigit(secondChar)))
IsConstant(contents) ==
    LET firstChar == contents[1]
        secondChar == IF Len(contents) > 1 THEN contents[2] ELSE NoChar
    IN \/ firstChar = "'"
       \/ isdigit(firstChar)
       \/ firstChar = "-" /\ (secondChar = "." \/ isdigit(secondChar))

WrongScope_Emitting(run, token) ==
    [addStringOutput(run, run.contents, "None", token) EXCEPT !.numErrors = @ + 1]

\* else numErrors++
WrongScope(run, token) == [run EXCEPT !.numErrors = @ + 1]

\* EvaluateGenerate_Recursive on the token at startTokenIndex.  An
\* invocation is handed to the dispatcher: what the dispatcher emits is one
\* fragment here, and the invocation fails when its index is the failing one
\* of the run.  Every Symbol and String token of the run has the contents
\* run.contents; run.stateVariable tells whether hot reloading is enabled
\* and the symbol is a module state variable.  steps logs the calls.
EvaluateGenerate_OverTokens(run, startTokenIndex) ==
    LET type == run.tokens[startTokenIndex]
        called == [run EXCEPT !.steps =
                      Append(@, [kind |-> "evaluated", startToken |-> startTokenIndex])]
    IN IF type = "OpenParen"
       THEN [called EXCEPT
                !.output = Append(@, Fragment("invocation", startTokenIndex, "None", <<>>)),
                !.numErrors = IF startTokenIndex \in run.failing THEN @ + 1 ELSE @]
       ELSE IF type = "CloseParen" THEN called
       ELSE IF ~ExpectEvaluatorScope(run.scope, "ExpressionsOnly")
       THEN WrongScope(called, startTokenIndex)
       ELSE IF type = "Symbol"
       THEN IF IsConstant(run.contents)
            THEN addStringOutput(called, run.contents, "None", startTokenIndex)
            ELSE IF run.stateVariable
            THEN addLangTokenOutput(
                     addStringOutput(
                         addStringOutput(
                             addLangTokenOutput(called, "OpenParen", startTokenIndex),
                             <<"*">>, "None", startTokenIndex),
                         run.contents, "ConvertVariableName", startTokenIndex),
                     "CloseParen", startTokenIndex)
            ELSE addStringOutput(called, run.contents, "ConvertVariableName",
                                 startTokenIndex)
       ELSE addStringOutput(called, run.contents, "SurroundWithQuotes", startTokenIndex)

\* The for loop from currentTokenIndex on.
RECURSIVE GenerateAllLoop(_, _)
GenerateAllLoop(run, currentTokenIndex) ==
    IF currentTokenIndex > Len(run.tokens) THEN run
    ELSE IF run.tokens[currentTokenIndex] = "CloseParen" THEN run
    ELSE LET delimited ==
                 IF NeedsDelimiter(run, currentTokenIndex)
                 THEN [run EXCEPT
                          !.output = Append(@, Fragment("delimiter", currentTokenIndex,
                                                        "None", <<>>)),
                          !.steps = Append(@, [kind |-> "delimiter",
                                               startToken |-> currentTokenIndex])]
                 ELSE run
             evaluated == EvaluateGenerate_OverTokens(delimited, currentTokenIndex)
             skipped == IF run.tokens[currentTokenIndex] = "OpenParen"
                        THEN FindCloseParenTokenIndex(run.tokens, currentTokenIndex)
                        ELSE currentTokenIndex
         IN GenerateAllLoop(evaluated, skipped + 1)

EvaluateGenerateAll_OverTokens(run) == GenerateAllLoop(run, run.startTokenIndex)

\* A caller is about to call EvaluateGenerateAll on a token array, from a
\* start index, in a scope, with or without a delimiter template; at most
\* one invocation fails.  The contents of the tokens are drawn from Contents
\* for an array of one token, and are PlainContents in a longer array.
InitGenerateAll ==
    /\ environment = InitEnvironment
    /\ pc = "generateAll"
    /\ definitionsToCheck = {}
    /\ definitionsToBuild = <<>>
    /\ index = 0
    /\ currentNumProcessesSpawned = 0
    /\ running = {}
    /\ numReferencesResolved = 0
    /\ numBuildResolveErrors = 0
    /\ faults = 0
    /\ libraryMayExist = {}
    /\ report = NoReport
    /\ \E tokens \in TokenArrays :
       \E startTokenIndex \in 1 .. Len(tokens) + 1, delimiterTemplate \in BOOLEAN,
          failing \in {{}} \cup {{i} : i \in {j \in 1 .. Len(tokens) :
                                                tokens[j] = "OpenParen"}},
          scope \in {"Module", "Body", "ExpressionsOnly"},
          contents \in IF Len(tokens) = 1 THEN Contents ELSE {PlainContents},
          stateVariable \in IF Len(tokens) = 1 THEN BOOLEAN ELSE {FALSE} :
          generateAll = [tokens |-> tokens, startTokenIndex |-> startTokenIndex,
                         delimiterTemplate |-> delimiterTemplate, failing |-> failing,
                         scope |-> scope, contents |-> contents,
                         stateVariable |-> stateVariable,
                         output |-> <<>>, steps |-> <<>>, numErrors |-> 0,
                         returned |-> FALSE]

\* The call runs and returns.
GenerateAll ==
    /\ pc = "generateAll"
    /\ ~generateAll.returned
    /\ generateAll' = [EvaluateGenerateAll_OverTokens(generateAll) EXCEPT
                          !.returned = TRUE]
    /\ UNCHANGED <<environment, pc, definitionsToCheck, definitionsToBuild, index,
                   currentNumProcessesSpawned, running, numReferencesResolved,
                   numBuildResolveErrors, faults, libraryMayExist, report>>

NextGenerateAll == GenerateAll

SpecGenerateAll == InitGenerateAll /\ [][NextGenerateAll]_vars

\* ================================================================ properties
\* The transitions section 8 of the specification lists as legal.
ListedTransitions ==
    {<<"None", "Guessed">>, <<"None", "WaitingForLoad">>, <<"None", "Resolved">>,
     <<"Guessed", "Resolved">>, <<"WaitingForLoad", "Resolved">>}

\* C1, as stated: the guessState of a ReferenceStatus changes only along
\* None->Guessed, None->WaitingForLoad, None->Resolved, Guessed->Resolved and
\* WaitingForLoad->Resolved.
C1_OnlyListedTransitions == environment.ghost.transitions \subseteq ListedTransitions

\* C1, amended: the guessState of a ReferenceStatus changes only along the
\* listed transitions and Guessed->WaitingForLoad; it never leaves Resolved
\* and never returns to None or to Guessed.
C1_NeverRegresses ==
    environment.ghost.transitions
        \subseteq ListedTransitions \cup {<<"Guessed", "WaitingForLoad">>}

\* A status that was guessed waits for a load: a macro expansion has defined
\* the guessed name as a compile-time definition.
C1_GuessedThenWaiting ==
    /\ <<"Guessed", "WaitingForLoad">> \in environment.ghost.transitions
    /\ environment.macroExpansions # <<>>

\* The compile-time definitions that have been loaded.
LoadedDefinitions(env) == {n \in DOMAIN env.definitions : env.definitions[n].isLoaded}

\* C2: for any finite module whose macro expansions add finitely many
\* definitions and references, cyclic references included, the
\* propagate/build loop of EvaluateResolveReferences terminates: every pass
\* but the last loads a definition that was not loaded before, so the number
\* of passes never exceeds the number of loaded definitions plus one, and
\* the definitions are finitely many.
C2_LoopTerminates ==
    environment.ghost.passes <= Cardinality(LoadedDefinitions(environment)) + 1

\* The loop has exited after more than two passes over a module in which a
\* macro expansion added definitions or references.
C2_ReturnedAfterPasses ==
    /\ pc = "done"
    /\ environment.ghost.passes >= 3
    /\ \E i \in DOMAIN environment.macroExpansions : environment.macroExpansions[i] # <<>>

\* C3: at no point during a build pass are more than maxProcessesSpawned (8)
\* subprocesses live at once, compile and link subprocesses alike, whatever
\* the number of build objects queued in the pass.
C3_AtMostEightLive == Cardinality(running) <= maxProcessesSpawned

\* C4: EvaluateResolveReferences returns success only if, when the loop has
\* exited, every required compile-time definition is loaded and every
\* ReferenceStatus of every required non-compile-time definition is Resolved
\* or Guessed.
C4_SuccessOnlyIfSettled ==
    (report.finished /\ report.result) =>
        /\ \A n \in DOMAIN environment.definitions :
               (environment.definitions[n].isRequired
                /\ isCompileTimeObject(environment.definitions[n].type))
                   => environment.definitions[n].isLoaded
        /\ \A n \in RequiredGenerated(environment) :
               \A m \in DOMAIN environment.definitions[n].references :
                   environment.definitions[n].references[m].guessState
                       \in {"Resolved", "Guessed"}

\* C5: each ObjectReference of a reference pool is evaluated definitively
\* (re-evaluated once its target compile-time definition is loaded) at most
\* once over the whole run, and its splice Output is empty when that
\* evaluation begins: it was cleared immediately before.
C5_EvaluatedOnceAfterClear ==
    \A id \in DOMAIN environment.references :
        /\ environment.ghost.evaluations[id] <= 1
        /\ environment.ghost.spliceAtEvaluation[id] = <<>>

\* A reference whose splice Output held a speculative invocation has been
\* evaluated definitively.
C5_GuessReplaced ==
    \E id \in DOMAIN environment.references :
        /\ environment.ghost.evaluations[id] = 1
        /\ environment.ghost.spliceBeforeReset[id] # <<>>

\* The definitions reachable from the set S over the edges "D has a
\* ReferenceStatus naming the definition E".
RECURSIVE ReachableFrom(_, _)
ReachableFrom(env, S) ==
    LET next == S \cup {e \in DOMAIN env.definitions :
                           \E d \in S : e \in DOMAIN env.definitions[d].references}
    IN IF next = S THEN S ELSE ReachableFrom(env, next)

RequiredDefinitions(env) == {n \in DOMAIN env.definitions : env.definitions[n].isRequired}

\* C6: when PropagateRequiredToReferences returns, the required definitions
\* are exactly those reachable, over ReferenceStatus edges, from the
\* definitions that were required on entry.
C6_RequiredIsClosure ==
    [][pc = "propagate" =>
          RequiredDefinitions(environment')
              = ReachableFrom(environment, RequiredDefinitions(environment))]_vars

\* Propagation has returned having required a definition that <global> does
\* not name: it is required through another definition.
C6_PropagatedTwoEdges ==
    /\ pc = "check"
    /\ \E n \in RequiredDefinitions(environment) \ {globalDefinitionName} :
           n \notin DOMAIN environment.definitions[globalDefinitionName].references

\* The ReferenceStatus entries of the required definitions that name a name
\* with no definition.
UndefinedReferences(env) ==
    UNION {{<<d, n>> : n \in DOMAIN env.definitions[d].references \ DOMAIN env.definitions} :
           d \in RequiredDefinitions(env)}

\* C7: a reference to a name for which no definition ever exists ends the
\* fixed-point loop in state Guessed, with a speculative function invocation
\* in the splice Output of each occurrence, and is not counted as an error.
\* Stated for the references of required definitions, the ones the build
\* driver visits.
C7_UndefinedEndsGuessed ==
    report.finished =>
        \A k \in UndefinedReferences(environment) :
            LET status == environment.definitions[k[1]].references[k[2]]
            IN /\ status.guessState = "Guessed"
               /\ \A i \in DOMAIN status.references :
                      \E j \in DOMAIN environment.spliceOutputs[status.references[i]] :
                          environment.spliceOutputs[status.references[i]][j]
                              = [kind |-> "invoke", name |-> k[2], ref |-> 0]
               /\ k[2] \notin report.failedToBuild

StatusKeys(env) ==
    UNION {{<<d, n>> : n \in DOMAIN env.definitions[d].references} :
           d \in DOMAIN env.definitions}

StatusOf(env, k) == env.definitions[k[1]].references[k[2]]

\* The readiness checks of the current pass are over and its load loop has
\* not loaded anything yet.
ChecksDone == pc \in {"compile", "compileWave", "link"} \/ (pc = "load" /\ index = 1)

\* Build pass number i has gone through its load loop.
IterationEnded(i) ==
    /\ environment.ghost.passes = i
    /\ (pc = "load" /\ index > Len(definitionsToBuild)) \/ pc = "done"

\* The ReferenceStatus entries, in required definitions, of the calls that
\* textually precede the definition of the macro or generator they invoke:
\* the status was created when the name had no definition, and the module
\* defines the name.
CallsBeforeMacro(env) ==
    {k \in env.ghost.createdUndefined :
        /\ env.definitions[k[1]].isRequired
        /\ k[2] \in env.ghost.moduleDefinitions
        /\ isCompileTimeObject(env.definitions[k[2]].type)}

CallsAfterMacro(env) ==
    {k \in StatusKeys(env) \ env.ghost.createdUndefined :
        /\ k[2] \in DOMAIN env.definitions
        /\ isCompileTimeObject(env.definitions[k[2]].type)}

\* No speculative invocation on the occurrences of status k: the status is
\* not Guessed, and before the function is in its table the splice Outputs
\* are empty.
NoGuessInstalled(env, k) ==
    /\ StatusOf(env, k).guessState # "Guessed"
    /\ (~findMacro(env, k[2]) /\ ~findGenerator(env, k[2])) =>
           \A i \in DOMAIN StatusOf(env, k).references :
               env.spliceOutputs[StatusOf(env, k).references[i]] = <<>>

NeverBuilt(n) ==
    /\ ~environment.definitions[n].isLoaded
    /\ ~findMacro(environment, n) /\ ~findGenerator(environment, n)
    /\ LoadCount(environment, n) = 0
    /\ \A i \in DOMAIN definitionsToBuild : definitionsToBuild[i].definition # n

\* The ReferenceStatus entries between members of ghost.stuck.
MutualStatuses(n) ==
    {m \in DOMAIN environment.definitions[n].references : m \in environment.ghost.stuck}

LoadAttempted(i) ==
    definitionsToBuild[i].stage \in {"Loading", "ResolvingReferences", "Finished"}

\* C11: a compile and a link subprocess are spawned for a queued build
\* object iff its source is more recently modified than its library.  With
\* a fresh library no subprocess is spawned and the object goes to the load
\* step with status 0; with a missing or stale library exactly one compile
\* and then exactly one link subprocess have been spawned for it when the
\* load loop takes it up.
C11_CompileLinkIffStale ==
    \A i \in DOMAIN definitionsToBuild :
        LET object == definitionsToBuild[i]
        IN /\ object.ghost.modified # "stale" =>
                  object.ghost.compiles = 0 /\ object.ghost.links = 0
           /\ object.ghost.modified = "fresh" =>
                  object.status = 0 /\ (object.stage = "Linking" \/ LoadAttempted(i))
           /\ (object.ghost.modified = "stale" /\ LoadAttempted(i)) =>
                  object.ghost.compiles = 1 /\ object.ghost.links = 1

\* The ObjectReferences recorded in the ReferenceStatus of name in
\* definition d.
StatusReferences(env, d, name) ==
    IF name \in DOMAIN env.definitions[d].references
    THEN {env.definitions[d].references[name].references[j] :
             j \in DOMAIN env.definitions[d].references[name].references}
    ELSE {}

\* C12: every ObjectReference held in a reference pool is also recorded in
\* the ReferenceStatus for the same name of some definition of the
\* environment, also after a dispatch whose registration reported that the
\* enclosing definition does not exist.
C12_PoolReferencesHaveStatus ==
    \A name \in DOMAIN environment.referencePools :
        \A i \in DOMAIN environment.referencePools[name] :
            \E d \in DOMAIN environment.definitions :
                environment.referencePools[name][i].ref
                    \in StatusReferences(environment, d, name)

\* C13: before teardown, every compile-time definition with isLoaded true
\* has a function installed in the table of its kind: the macro table for a
\* macro, the generator table for a generator.
C13_LoadedIsInstalled ==
    pc # "destroyed" =>
        \A n \in DOMAIN environment.definitions :
            (isCompileTimeObject(environment.definitions[n].type)
             /\ environment.definitions[n].isLoaded) =>
                IF environment.definitions[n].type = "CompileTimeMacro"
                THEN findMacro(environment, n)
                ELSE findGenerator(environment, n)

\* A generator and a macro have both been loaded.
C13_MacroAndGeneratorLoaded ==
    \E n, m \in DOMAIN environment.definitions :
        /\ environment.definitions[n].type = "CompileTimeGenerator"
        /\ environment.definitions[m].type = "CompileTimeMacro"
        /\ environment.definitions[n].isLoaded
        /\ environment.definitions[m].isLoaded

\* Sequence old is a prefix of sequence new: nothing was removed, moved or
\* changed, elements were at most appended.
IsPrefix(old, new) ==
    /\ Len(old) <= Len(new)
    /\ \A i \in DOMAIN old : new[i] = old[i]

\* Every array of the expansion arenas is the output of a loaded macro, as
\* the macro produced it.
ExpansionsAsPublished(env) ==
    \A i \in DOMAIN env.macroExpansions :
        \E m \in DOMAIN env.macros : env.macroExpansions[i] = env.macros[m].tokens

\* C14: no step before teardown changes a token array that was handed to
\* evaluation or added to the expansion arenas: the module's forms and the
\* macro expansion arrays keep their length and their elements (every
\* expansion array is still the output its macro produced), and the tokens
\* an ObjectReference points at are the ones it was dispatched on.
C14_TokenArraysImmutable ==
    /\ [](ExpansionsAsPublished(environment))
    /\ [][pc' # "destroyed" =>
             /\ IsPrefix(environment.macroExpansions, environment'.macroExpansions)
             /\ IsPrefix(environment.ghost.moduleForms, environment'.ghost.moduleForms)
             /\ IsPrefix(environment.references, environment'.references)]_vars

\* The run has returned with two macro expansions in the arenas and an
\* ObjectReference into the tokens of an expansion.
C14_TwoExpansionsKept ==
    /\ pc = "done"
    /\ Len(environment.macroExpansions) >= 2
    /\ \E id \in DOMAIN environment.references :
           FormOfReference(environment.references[id])
               \notin {environment.ghost.moduleForms[j] :
                           j \in DOMAIN environment.ghost.moduleForms}

\* The sentinels of an Output, in the order of its fragments.
Sentinels(output) == SelectSeq(output, LAMBDA fragment : fragment.kind = "splice")

\* ObjectReferences are numbered in the order of their dispatch: the
\* sentinels of the Output are in that order.
InDispatchOrder(output) ==
    \A i, j \in DOMAIN Sentinels(output) :
        i < j => Sentinels(output)[i].ref < Sentinels(output)[j].ref

\* C15: filling, clearing or refilling the splice Output of a reference
\* changes no fragment of any other Output that existed, the parent Output
\* of its sentinel included; and in every Output the sentinels are in the
\* order in which their call sites were dispatched, whatever the order in
\* which the splices were filled.
C15_FillKeepsParentOrder ==
    /\ ~environment.ghost.disturbed
    /\ \A n \in DOMAIN environment.definitionOutputs :
           InDispatchOrder(environment.definitionOutputs[n])
    /\ \A id \in DOMAIN environment.spliceOutputs :
           InDispatchOrder(environment.spliceOutputs[id])

\* An Output holds two sentinels whose splices were filled against the
\* order of dispatch: the later one by a guess, then the earlier one by the
\* evaluation after its macro was loaded.
C15_FilledOutOfOrder ==
    \E n \in DOMAIN environment.definitionOutputs :
        \E i, j \in DOMAIN Sentinels(environment.definitionOutputs[n]) :
            LET first == Sentinels(environment.definitionOutputs[n])[i].ref
                second == Sentinels(environment.definitionOutputs[n])[j].ref
            IN /\ i < j
               /\ environment.ghost.evaluations[first] = 1
               /\ environment.spliceOutputs[first] # <<>>
               /\ environment.ghost.evaluations[second] = 0
               /\ environment.spliceOutputs[second] # <<>>

\* No entry of the reference pool of name is marked resolved.
NoneResolved(env, name) ==
    name \in DOMAIN env.referencePools =>
        \A i \in DOMAIN env.referencePools[name] : ~env.referencePools[name][i].isResolved

\* C16: when writing the source, compiling, linking, loading the library or
\* finding the entry symbol failed for a build object, its definition is
\* still unloaded in that pass, no function was installed for it, no pool
\* reference to it was marked resolved, and it is still required and
\* unloaded, hence checked again by a later iteration.
C16_FailedStaysUnloaded ==
    \A i \in DOMAIN definitionsToBuild :
        LET name == definitionsToBuild[i].definition
        IN definitionsToBuild[i].ghost.failed =>
               /\ ~environment.definitions[name].isLoaded
               /\ ~findMacro(environment, name) /\ ~findGenerator(environment, name)
               /\ NoneResolved(environment, name)
               /\ environment.definitions[name].isRequired

\* The load loop of the current pass is over.
LoadLoopOver == pc = "load" /\ index > Len(definitionsToBuild)

\* Build object i went through the whole pass: compiled and linked if its
\* library was not fresh, loaded, and the pool of its definition resolved.
BuiltInPass(i) ==
    LET object == definitionsToBuild[i]
    IN /\ object.stage = "Finished"
       /\ object.ghost.modified = "stale" =>
              object.ghost.compiles = 1 /\ object.ghost.links = 1
       /\ environment.definitions[object.definition].isLoaded
       /\ isCompileTimeCodeLoaded(environment, object.definition)
       /\ \A k \in DOMAIN environment.referencePools[object.definition] :
              environment.referencePools[object.definition][k].isResolved

\* C17: the failure of one build object in a pass does not stop the others
\* queued in the same pass: when the load loop is over, every build object
\* none of whose steps failed has been compiled, linked, loaded and has its
\* pool references resolved.
C17_OthersStillBuilt ==
    LoadLoopOver =>
        \A i \in DOMAIN definitionsToBuild :
            ~definitionsToBuild[i].ghost.failed => BuiltInPass(i)

\* A pass is over in which a build object failed and one queued after it
\* was built.
C17_BuiltAfterFailure ==
    /\ LoadLoopOver
    /\ \E i, j \in DOMAIN definitionsToBuild :
           /\ i < j
           /\ definitionsToBuild[i].ghost.failed
           /\ ~definitionsToBuild[j].ghost.failed
           /\ definitionsToBuild[j].ghost.modified = "stale"
           /\ BuiltInPass(j)

\* The keys of the Outputs or arrays of one kind in the log of deletions.
FreedKeys(log, kind) == {log[i].key : i \in {j \in DOMAIN log : log[j].kind = kind}}

FreeRank(kind) ==
    CASE kind = "spliceOutput" -> 1
      [] kind = "definitionOutput" -> 2
      [] kind = "macroExpansion" -> 3

\* C18: environmentDestroyInvalidateTokens deletes every splice Output
\* (through the pools) before any definition Output and every definition
\* Output before any macro-expansion array; it deletes all of them, and
\* when it returns the reference pools, the definitions map and the
\* expansion arenas are empty.
C18_TeardownOrder ==
    [][pc' = "destroyed" =>
          LET log == environment'.ghost.freed
          IN /\ \A i, j \in DOMAIN log :
                    i < j => FreeRank(log[i].kind) <= FreeRank(log[j].kind)
             /\ FreedKeys(log, "spliceOutput") = DOMAIN environment.spliceOutputs
             /\ FreedKeys(log, "definitionOutput") = DOMAIN environment.definitions
             /\ FreedKeys(log, "macroExpansion") = DOMAIN environment.macroExpansions
             /\ Len(log) = Len(environment.spliceOutputs)
                               + Cardinality(DOMAIN environment.definitions)
                               + Len(environment.macroExpansions)
             /\ DOMAIN environment'.referencePools = {}
             /\ DOMAIN environment'.definitions = {}
             /\ environment'.macroExpansions = <<>>]_vars

\* Teardown has returned having deleted splice Outputs, definition Outputs
\* and macro expansions.
C18_AllKindsFreed ==
    /\ pc = "destroyed"
    /\ \A kind \in {"spliceOutput", "definitionOutput", "macroExpansion"} :
           FreedKeys(environment.ghost.freed, kind) # {}

\* The errors of the evaluations, after a load, of the call sites of
\* definition n.
SiteErrors(env, n) ==
    IF n \in DOMAIN env.ghost.siteErrors THEN env.ghost.siteErrors[n] ELSE 0

\* In the final report a definition that is not required has the note
\* "omitted" and no error.
OmittedOnlyNoted ==
    \A n \in DOMAIN environment.definitions :
        ~environment.definitions[n].isRequired =>
            /\ n \in report.omitted
            /\ n \notin report.failedToBuild
            /\ \A k \in report.unresolved : k[1] # n

\* C19, as stated: a definition that is not required after propagation
\* contributes only an "omitted" note to the final report, and cannot make
\* EvaluateResolveReferences return failure: a failure always has a cause
\* in a required definition, an error of the report or an error of the
\* evaluation of one of its call sites.
C19_UnrequiredNeverFails ==
    pc = "done" =>
        /\ OmittedOnlyNoted
        /\ ~report.result =>
               \/ report.errors > 0
               \/ \E n \in DOMAIN environment.definitions :
                      environment.definitions[n].isRequired
                      /\ SiteErrors(environment, n) > 0

\* Every required definition is settled: the compile-time ones are in their
\* table, the others name no compile-time definition that is not loaded.
RequiredSettled(env) ==
    \A n \in DOMAIN env.definitions :
        env.definitions[n].isRequired =>
            IF isCompileTimeObject(env.definitions[n].type)
            THEN findMacro(env, n) \/ findGenerator(env, n)
            ELSE MissingDefinitionNames(env, n) = {}

\* C19, amended: a definition that is not required after propagation
\* contributes only an "omitted" note to the final report and none of its
\* errors, whatever its kind, load state or reference states: the report
\* has no error when the required definitions are settled.  A failure of
\* EvaluateResolveReferences comes from an error of the report or from an
\* error of a build pass, and the latter counts the evaluation errors of
\* every call site of a loaded macro, those in definitions that are not
\* required included.
C19_OmittedNotInReport ==
    pc = "done" =>
        /\ OmittedOnlyNoted
        /\ RequiredSettled(environment) => report.errors = 0
        /\ ~report.result => report.errors > 0 \/ numBuildResolveErrors > 0

\* The run has returned success with an omitted function one of whose
\* references names a macro that was never loaded.
C19_OmittedWithMissing ==
    /\ pc = "done" /\ report.result
    /\ \E n \in DOMAIN environment.definitions :
           /\ ~environment.definitions[n].isRequired
           /\ environment.definitions[n].type = "Function"
           /\ MissingDefinitionNames(environment, n) # {}

\* ------------------------------------------------------- order independence
\* The text of an Output: its fragments in order, every sentinel replaced by
\* the text of its splice Output.
RECURSIVE Flatten(_, _)
Flatten(env, output) ==
    IF output = <<>> THEN <<>>
    ELSE (IF Head(output).kind = "splice"
          THEN Flatten(env, env.spliceOutputs[Head(output).ref])
          ELSE <<[kind |-> Head(output).kind, name |-> Head(output).name]>>)
         \o Flatten(env, Tail(output))

\* What a run leaves to observe: the text of every definition's Output with
\* its splices, the guessState of every ReferenceStatus, and the loaded
\* definitions.
Observable(env) ==
    [text |-> [n \in DOMAIN env.definitionOutputs |->
                  Flatten(env, env.definitionOutputs[n])],
     guessStates |-> [n \in DOMAIN env.definitions |->
                         [m \in DOMAIN env.definitions[n].references |->
                             env.definitions[n].references[m].guessState]],
     loaded |-> LoadedDefinitions(env)]

\* The run in one fixed order: definitions are checked and build objects
\* loaded in the order SetToSeq gives, and the references of a definition
\* are scanned in one fixed order.  macros and generators give the function
\* each compile-time definition has once it is loaded.
FixedScanOrders(env, name) == CHOOSE orders \in ScanOrders(env, name) : TRUE

FixedQueued(acc, name, checked) ==
    IF ShouldQueue(checked, acc.env.definitions[name].type)
    THEN [acc EXCEPT
             !.env = [checked.env EXCEPT
                         !.nextFreeBuildId = getNextFreeBuildId(checked.env)],
             !.queue = Append(@, name)]
    ELSE [acc EXCEPT !.env = checked.env]

RECURSIVE FixedCheck(_, _)
FixedCheck(acc, names) ==
    IF names = <<>> THEN acc
    ELSE FixedCheck(
             FixedQueued(acc, Head(names),
                 CheckDefinitionReferences(StartCheck(acc.env),
                     Head(names), FixedScanOrders(acc.env, Head(names)))),
             Tail(names))

FixedLoaded(acc, r) ==
    [acc EXCEPT !.env = r.env,
                !.resolved = @ + r.numReferencesResolved,
                !.errors = @ + r.numErrors]

\* The function of a definition is known when the run to compare with has
\* loaded it.
FunctionKnown(env, name, macros, generators) ==
    IF env.definitions[name].type = "CompileTimeMacro"
    THEN name \in DOMAIN macros
    ELSE name \in DOMAIN generators

RECURSIVE FixedLoad(_, _, _, _)
FixedLoad(acc, queue, macros, generators) ==
    IF queue = <<>> THEN acc
    ELSE IF <<Head(queue), acc.pass>> \in acc.notLoaded
    THEN FixedLoad(acc, Tail(queue), macros, generators)
    ELSE IF ~FunctionKnown(acc.env, Head(queue), macros, generators)
    THEN [acc EXCEPT !.diverged = TRUE]
    ELSE FixedLoad(
             FixedLoaded(acc,
                 LoadAndResolve(acc.env, Head(queue),
                     IF acc.env.definitions[Head(queue)].type = "CompileTimeMacro"
                     THEN macros[Head(queue)] ELSE CHOOSE m \in MacroFuncs : TRUE,
                     IF acc.env.definitions[Head(queue)].type = "CompileTimeGenerator"
                     THEN generators[Head(queue)] ELSE TRUE)),
             Tail(queue), macros, generators)

FixedLoadQueue(acc, macros, generators) ==
    FixedLoad(acc, acc.queue, macros, generators)

FixedCheckAll(env, pass, notLoaded) ==
    FixedCheck([env |-> env, queue |-> <<>>, resolved |-> 0, errors |-> 0,
                diverged |-> FALSE, pass |-> pass, notLoaded |-> notLoaded],
               SetToSeq({n \in DOMAIN env.definitions :
                            env.definitions[n].isRequired /\ ~env.definitions[n].isLoaded}))

RECURSIVE FixedPass(_, _, _, _, _)
RECURSIVE FixedLoop(_, _, _)
FixedPass(env, pass, notLoaded, macros, generators) ==
    FixedLoop(FixedLoadQueue(FixedCheckAll(PropagateRequiredToReferences(env),
                                           pass, notLoaded),
                             macros, generators),
              macros, generators)

FixedLoop(acc, macros, generators) ==
    IF acc.diverged \/ ~LoopContinues(acc.resolved, acc.errors) THEN acc
    ELSE FixedPass(acc.env, acc.pass + 1, acc.notLoaded, macros, generators)

\* The whole run in the fixed order, from the environment the caller
\* created.  notLoaded tells which build objects the tool chain fails in
\* which pass.
FixedRun(initial, forms, notLoaded, macros, generators) ==
    FixedPass(EvaluateGenerateAll_Recursive(initial, ModuleContext, forms,
                  DefinitionOutput(globalDefinitionName)).env,
              1, notLoaded, macros, generators)

SameAsFixedRun(env, fixed) ==
    ~fixed.diverged /\ Observable(env) = Observable(fixed.env)

OutputIsKept(macro) == macro.succeeded /\ macro.tokens # <<>> /\ macro.balanced

\* C21: the output of a macro is appended to the expansion arenas iff the
\* macro returned success, its output is not empty and its parentheses
\* validate.  Otherwise the invocation leaves the whole environment as it
\* was (nothing was evaluated, the arenas are unchanged), failing when the
\* macro failed or the parentheses do not validate and succeeding on an
\* empty output.  An appended array is in the arenas, as the macro
\* produced it, in every state before teardown, also when the evaluation of
\* the expansion reported errors; and the arenas hold nothing else.
C21_KeptIffValidated ==
    pc # "destroyed" =>
        /\ \A i \in DOMAIN environment.ghost.macroCalls :
               LET call == environment.ghost.macroCalls[i]
               IN /\ call.index # 0 <=> OutputIsKept(call.macro)
                  /\ ~OutputIsKept(call.macro) =>
                         /\ call.untouched
                         /\ call.ok <=> (call.macro.succeeded /\ call.macro.tokens = <<>>)
                  /\ call.index # 0 =>
                         /\ call.index \in DOMAIN environment.macroExpansions
                         /\ environment.macroExpansions[call.index] = call.macro.tokens
        /\ Len(environment.macroExpansions)
               = Cardinality({i \in DOMAIN environment.ghost.macroCalls :
                                 environment.ghost.macroCalls[i].index # 0})

\* A macro whose output was discarded has been invoked, and the array of a
\* macro whose expansion reported an error is in the arenas.
C21_KeptDespiteErrors ==
    /\ pc # "destroyed"
    /\ \E i, j \in DOMAIN environment.ghost.macroCalls :
           /\ environment.ghost.macroCalls[i].index # 0
           /\ ~environment.ghost.macroCalls[i].ok
           /\ environment.ghost.macroCalls[j].index = 0
           /\ ~environment.ghost.macroCalls[j].macro.succeeded

\* The calls of addObjectDefinition under name before call number i that
\* returned true.
AddedBefore(additions, i, name) ==
    {j \in 1 .. i - 1 : additions[j].name = name /\ additions[j].ok}

\* C22: addObjectDefinition returns false and leaves the definitions map
\* as it is when the name is already in the map or in the macro or
\* generator table, and adds the definition otherwise; after any sequence
\* of additions each name of the map has the definition of the first call
\* that was accepted under it.
C22_FirstDefinitionStays ==
    /\ [](\A i \in DOMAIN environment.ghost.additions :
             LET additions == environment.ghost.additions
                 call == additions[i]
             IN /\ call.ok <=>
                       /\ call.name # globalDefinitionName
                       /\ AddedBefore(additions, i, call.name) = {}
                       /\ ~findMacro(environment, call.name)
                       /\ ~findGenerator(environment, call.name)
                /\ call.ok =>
                       /\ call.name \in DOMAIN environment.definitions
                       /\ environment.definitions[call.name].type = call.type)
    /\ [](DOMAIN environment.definitions \ {globalDefinitionName}
              = {environment.ghost.additions[i].name :
                    i \in {j \in DOMAIN environment.ghost.additions :
                              environment.ghost.additions[j].ok}})
    /\ [][(pc = "add"
            /\ ~environment'.ghost.additions[Len(environment'.ghost.additions)].ok)
              => environment'.definitions = environment.definitions]_vars

\* A name of the macro table, a name of the generator table and a name of
\* the definitions map have each been rejected, the last after a call that
\* added it with another type.
C22_ThreeKindsRejected ==
    \E i, j, k, l \in DOMAIN environment.ghost.additions :
        LET additions == environment.ghost.additions
        IN /\ ~additions[i].ok /\ findMacro(environment, additions[i].name)
           /\ ~additions[j].ok /\ findGenerator(environment, additions[j].name)
           /\ additions[k].ok /\ ~additions[l].ok /\ k < l
           /\ additions[k].name = additions[l].name
           /\ additions[k].type # additions[l].type

\* Build objects i and j have no artifact name in common.
DistinctArtifacts(i, j) ==
    LET first == definitionsToBuild[i]
        second == definitionsToBuild[j]
    IN /\ (first.artifactsName # <<>> /\ second.artifactsName # <<>>) =>
              first.artifactsName # second.artifactsName
       /\ (first.buildObjectName # <<>> /\ second.buildObjectName # <<>>) =>
              first.buildObjectName # second.buildObjectName
       /\ (first.dynamicLibraryPath # <<>> /\ second.dynamicLibraryPath # <<>>) =>
              first.dynamicLibraryPath # second.dynamicLibraryPath

\* C23: within one build pass no two build objects share an artifacts base
\* name, an object-file path or a shared-library path, and no two
\* subprocesses that are live at the same time read or write the same file
\* of the cache directory.
C23_NoSharedArtifacts ==
    /\ \A i, j \in DOMAIN definitionsToBuild : i # j => DistinctArtifacts(i, j)
    /\ \A i, j \in running :
           i # j => ProcessFiles(definitionsToBuild[i])
                        \cap ProcessFiles(definitionsToBuild[j]) = {}

\* The compile-time definitions that definition d has a ReferenceStatus for.
CompileTimeReferences(env, d) ==
    {m \in DOMAIN env.definitions[d].references :
        m \in DOMAIN env.definitions /\ isCompileTimeObject(env.definitions[m].type)}

\* C24: a compile-time definition is queued for build only in a pass at
\* whose start every compile-time definition it references is loaded
\* (nothing is loaded before the load loop of the pass, so the references
\* of a queued definition are to loaded definitions until then); and a pool
\* reference is re-evaluated and marked resolved only when the function of
\* its target is in the macro or generator table.
C24_LoadedBeforeUse ==
    /\ (pc = "check" \/ ChecksDone) =>
           \A i \in DOMAIN definitionsToBuild :
               \A m \in CompileTimeReferences(environment,
                                               definitionsToBuild[i].definition) :
                   environment.definitions[m].isLoaded
    /\ pc # "destroyed" =>
           \A name \in DOMAIN environment.referencePools :
               \A i \in DOMAIN environment.referencePools[name] :
                   LET entry == environment.referencePools[name][i]
                   IN (entry.isResolved \/ environment.ghost.evaluations[entry.ref] > 0)
                          => findMacro(environment, name) \/ findGenerator(environment, name)

\* The route the priority of the dispatcher gives for what the tables and
\* the definitions map hold.
RouteByPriority(dispatch) ==
    IF dispatch.macroTable THEN "macro"
    ELSE IF dispatch.generatorTable THEN "generator"
    ELSE IF dispatch.defined = "Function" THEN "function"
    ELSE "unknown"

\* The name is defined as a macro or generator that is not in the tables.
DefinedNotInTables(dispatch) ==
    /\ isCompileTimeObject(dispatch.defined)
    /\ ~dispatch.macroTable /\ ~dispatch.generatorTable

\* Every dispatch took the one route of the priority; a reference was
\* created on the unknown route only, and the function route emitted the
\* invocation.
RoutesAsListed ==
    \A dispatch \in environment.ghost.dispatches :
        /\ dispatch.route = RouteByPriority(dispatch)
        /\ dispatch.created <=> dispatch.route = "unknown"
        /\ dispatch.route = "function" => dispatch.emitted
        /\ dispatch.route \in {"macro", "generator"} => ~dispatch.emitted
        /\ DefinedNotInTables(dispatch) => dispatch.route = "unknown"

\* C25, as stated: the dispatcher takes exactly one route, by the priority
\* macro table, generator table, defined Function (emitted as a function
\* invocation, no reference created), unknown (a reference is created); a
\* name defined as a macro or generator that is not in the tables takes the
\* unknown route and is never emitted as a function invocation by the
\* dispatcher.
C25_RouteByPriority ==
    /\ RoutesAsListed
    /\ \A dispatch \in environment.ghost.dispatches :
           DefinedNotInTables(dispatch) => ~dispatch.emitted

\* C25, amended: the dispatcher takes exactly one route, by the priority
\* macro table, generator table, defined Function (emitted as a function
\* invocation, no reference created), unknown (a reference is created); a
\* name defined as a macro or generator that is not in the tables takes the
\* unknown route.  On the unknown route the dispatcher emits a function
\* invocation iff the enclosing definition's ReferenceStatus for the name
\* is Guessed, also when the name has meanwhile been defined as a macro or
\* generator.
C25_RouteAndStaleGuess ==
    /\ RoutesAsListed
    /\ \A dispatch \in environment.ghost.dispatches :
           dispatch.route = "unknown" => (dispatch.emitted <=> dispatch.guessed)

\* The dispatcher has taken the macro route for one invocation, and on the
\* unknown route has emitted a function invocation of a name that is defined
\* as a macro or generator and not in the tables.
C25_GuessedMacroEmitted ==
    \E dispatch, expanded \in environment.ghost.dispatches :
        /\ DefinedNotInTables(dispatch)
        /\ dispatch.route = "unknown" /\ dispatch.created
        /\ dispatch.emitted /\ dispatch.guessed
        /\ expanded.route = "macro" /\ ~expanded.created

\* What the iterations of a check found, in the terms of the flags.
ScannedUnloaded(check) ==
    \E scan \in check.scans : isCompileTimeObject(scan.type) /\ ~scan.isLoaded

ScannedUndefined(check) ==
    \E scan \in check.scans : scan.type = NoName /\ scan.guessState \in {"None", "Guessed"}

ScannedChange(check) ==
    \E scan \in check.scans :
        \/ scan.type = NoName /\ scan.guessState = "None"
        \/ isCompileTimeObject(scan.type) /\ scan.isLoaded /\ scan.guessState # "Resolved"

\* The checks of compile-time definitions.
CompileTimeChecks ==
    {check \in environment.ghost.checks : isCompileTimeObject(check.type)}

\* The queueing condition, and the flags in terms of what the iterations of
\* the check found when they looked at each ReferenceStatus.
QueuedByFlags ==
    \A check \in CompileTimeChecks :
        /\ check.queued <=>
               /\ check.canBuild
               /\ ~check.hasGuessedRefs \/ check.hasRelevantChangeOccurred
        /\ check.canBuild <=> ~(ScannedUnloaded(check) \/ check.emissionFailed)
        /\ check.hasGuessedRefs <=> ScannedUndefined(check)
        /\ check.hasRelevantChangeOccurred <=> ScannedChange(check)

\* C26: a required, not-loaded compile-time definition is queued iff
\* canBuild && (!hasGuessedRefs || hasRelevantChangeOccurred) holds after its
\* references were checked, where canBuild is false iff some reference of
\* the definition names an unloaded compile-time definition or an emission
\* failed, hasGuessedRefs is true iff some reference is to a still-undefined
\* name, and hasRelevantChangeOccurred is true iff in this pass a reference
\* was newly guessed or a referenced compile-time definition was found
\* loaded while the status was not yet Resolved.
C26_QueuedIffReady ==
    /\ QueuedByFlags
    /\ \A check \in CompileTimeChecks :
           /\ check.canBuild <=> ~(check.unloadedReference \/ check.emissionFailed)
           /\ check.hasGuessedRefs <=> check.undefinedReference

\* The live subprocesses of a kind: a build object is in stage Compiling
\* while its compiler runs and in stage Linking while its linker runs.
Live(stage) == {object \in running : definitionsToBuild[object].stage = stage}

\* C27: within a build pass the phases do not overlap: no link subprocess is
\* started while a compile subprocess is live, no library is loaded and no
\* reference resolved while a link subprocess is live, and each phase starts
\* only after all subprocesses of the previous phase have closed.
C27_PhasesDoNotOverlap ==
    /\ [](/\ Live("Compiling") = {} \/ Live("Linking") = {}
          /\ (pc = "link") => (Live("Compiling") = {})
          /\ (pc \notin {"compile", "compileWave", "link"}) => (running = {}))
    /\ [][/\ (Live("Linking")' # Live("Linking") /\ Live("Linking")' # {})
              => (Live("Compiling") = {} /\ Live("Compiling")' = {})
          /\ (\/ LoadedDefinitions(environment') # LoadedDefinitions(environment)
              \/ numReferencesResolved' # numReferencesResolved
              \/ environment'.references # environment.references)
              => (running = {} /\ running' = {})]_vars

\* A definition whose compiler and linker have both run as subprocesses in
\* this pass is loaded, while a build object of the pass was linked too.
C27_CompiledLinkedLoaded ==
    /\ pc = "load"
    /\ \E object, other \in DOMAIN definitionsToBuild :
           /\ object # other
           /\ definitionsToBuild[object].ghost.compiles > 0
           /\ definitionsToBuild[object].ghost.links > 0
           /\ environment.definitions[definitionsToBuild[object].definition].isLoaded
           /\ definitionsToBuild[other].ghost.links > 0

\* The build pass has ended: BuildEvaluateReferences is about to return.
PassEnded == pc = "load" /\ index > Len(definitionsToBuild)

\* The pass has reported a build failure for one of its build objects: its
\* source was not written, its compiler or linker exited with a status other
\* than 0, or its library or symbol was not loaded.
BuildFailed ==
    \E object \in DOMAIN definitionsToBuild :
        LET buildObject == definitionsToBuild[object]
        IN \/ buildObject.stage = "None" /\ buildObject.ghost.failed
           \/ buildObject.stage \in {"Compiling", "Linking"} /\ buildObject.status # 0
           \/ buildObject.stage = "Loading"

\* Each iteration propagates and then runs one build pass, and the step
\* after a pass leaves the loop iff stops holds, and otherwise propagates.
LoopOrder(stops) ==
    /\ (pc = "propagate" /\ pc' # pc) => (pc' = "check")
    /\ (pc' = "propagate" /\ pc' # pc) => (PassEnded \/ pc = "evaluate")
    /\ (PassEnded /\ pc' # pc) => /\ pc' \in {"propagate", "done"}
                                  /\ pc' = "done" <=> stops

\* The loop stops after the first pass that resolves zero references or
\* counts an evaluation error while resolving references.
LoopFollowsCounters ==
    [][LoopOrder(numReferencesResolved = 0 \/ numBuildResolveErrors # 0)]_vars

\* C28: each iteration of the fixed-point loop runs requirement propagation
\* and then one build pass; the loop stops after the first build pass that
\* resolves zero references or reports an error (a build failure or an
\* evaluation error while resolving references), and otherwise runs another
\* iteration.
C28_StopsOnZeroOrError ==
    [][LoopOrder(\/ numReferencesResolved = 0
                 \/ numBuildResolveErrors # 0
                 \/ BuildFailed)]_vars

\* The dispatches that registered a new call site for an unknown name.
NewCallSites == {dispatch \in environment.ghost.dispatches : dispatch.route = "unknown"}

\* C29: when the dispatcher registers a new call site for an unknown name it
\* installs the splice sentinel, and it emits a function invocation into the
\* new splice Output iff the enclosing definition's ReferenceStatus for the
\* name is already Guessed; when the status is newly created, None or
\* WaitingForLoad the splice Output is left empty.
C29_GuessOnlyRepeated ==
    \A dispatch \in NewCallSites :
        /\ dispatch.created /\ dispatch.sentinel
        /\ dispatch.status \in {"Absent", "None", "Guessed", "WaitingForLoad"}
        /\ IF dispatch.status = "Guessed"
           THEN /\ dispatch.splice # <<>>
                /\ dispatch.splice[1] = [kind |-> "invoke", name |-> dispatch.name, ref |-> 0]
           ELSE dispatch.splice = <<>>

\* New call sites have been registered under each status: a new status, a
\* status None, a Guessed one (with the invocation emitted) and one that is
\* WaitingForLoad (with the splice Output left empty).
C29_EveryStatusDispatched ==
    /\ {dispatch.status : dispatch \in NewCallSites}
           = {"Absent", "None", "Guessed", "WaitingForLoad"}
    /\ \E dispatch \in NewCallSites : dispatch.status = "Guessed" /\ dispatch.splice # <<>>

\* The nesting of the token at index i relative to startTokenIndex.
Depth(tokens, startTokenIndex, i) ==
    Cardinality({j \in startTokenIndex .. i - 1 : tokens[j] = "OpenParen"})
        - Cardinality({j \in startTokenIndex .. i - 1 : tokens[j] = "CloseParen"})

\* The first CloseParen at the nesting level of startTokenIndex, or the end
\* of the array.
LevelEnd(tokens, startTokenIndex) ==
    LET closing == {j \in startTokenIndex .. Len(tokens) :
                       tokens[j] = "CloseParen" /\ Depth(tokens, startTokenIndex, j) = 0}
    IN IF closing = {} THEN Len(tokens) + 1
       ELSE CHOOSE j \in closing : \A k \in closing : j <= k

\* The start indices of the sibling forms at the nesting level of
\* startTokenIndex.
Siblings(tokens, startTokenIndex) ==
    {i \in startTokenIndex .. LevelEnd(tokens, startTokenIndex) - 1 :
        Depth(tokens, startTokenIndex, i) = 0}

\* C30: EvaluateGenerateAll evaluates exactly the sibling forms at the
\* nesting level of its start index, left to right, stopping at the first
\* close-paren at that level or at the end of the array, and no token nested
\* inside an invocation; with a delimiter template it inserts exactly one
\* delimiter before every sibling except the first (k siblings give k-1
\* delimiters), and without one it inserts none.
C30_SiblingsInOrder ==
    generateAll.returned =>
        LET run == generateAll
            siblings == Siblings(run.tokens, run.startTokenIndex)
            evaluated == SelectSeq(run.steps, LAMBDA f : f.kind = "evaluated")
            delimiters == SelectSeq(run.output, LAMBDA f : f.kind = "delimiter")
        IN /\ {evaluated[p].startToken : p \in DOMAIN evaluated} = siblings
           /\ Len(evaluated) = Cardinality(siblings)
           /\ \A p, q \in DOMAIN evaluated :
                  p < q => evaluated[p].startToken < evaluated[q].startToken
           /\ Len(delimiters) = IF run.delimiterTemplate /\ siblings # {}
                                THEN Cardinality(siblings) - 1 ELSE 0
           /\ Len(delimiters) = Len(SelectSeq(run.steps, LAMBDA f : f.kind = "delimiter"))
           /\ \A p \in DOMAIN run.steps :
                  run.steps[p].kind = "delimiter" =>
                      /\ run.steps[p].startToken # run.startTokenIndex
                      /\ p < Len(run.steps)
                      /\ run.steps[p + 1] = [kind |-> "evaluated",
                                             startToken |-> run.steps[p].startToken]

\* A call with a delimiter template that started inside an invocation has
\* returned at the close-paren of that invocation after three siblings or
\* more, one of them an invocation with tokens nested in it, and one of
\* them failing to evaluate.
C30_ThreeSiblingsDelimited ==
    /\ generateAll.returned
    /\ generateAll.delimiterTemplate
    /\ generateAll.startTokenIndex > 1
    /\ LET siblings == Siblings(generateAll.tokens, generateAll.startTokenIndex)
       IN /\ Cardinality(siblings) >= 3
          /\ LevelEnd(generateAll.tokens, generateAll.startTokenIndex)
                 <= Len(generateAll.tokens)
          /\ generateAll.failing \cap siblings # {}
          /\ \E i \in siblings :
                 /\ generateAll.tokens[i] = "OpenParen"
                 /\ FindCloseParenTokenIndex(generateAll.tokens, i) > i + 1

\* The error count of the evaluation of the sibling at index i of a run.
SiblingErrors(run, i) ==
    IF run.tokens[i] = "OpenParen" THEN IF i \in run.failing THEN 1 ELSE 0
    ELSE IF run.scope = "ExpressionsOnly" THEN 0 ELSE 1

RECURSIVE SumOfErrors(_, _)
SumOfErrors(run, indices) ==
    IF indices = {} THEN 0
    ELSE LET i == CHOOSE i \in indices : TRUE
         IN SiblingErrors(run, i) + SumOfErrors(run, indices \ {i})

\* C31: evaluating a Symbol or String token in Module or Body scope adds
\* exactly one to the error count and emits no output fragment; the
\* following siblings are still evaluated, and the count EvaluateGenerateAll
\* returns is the sum of the error counts of the siblings it evaluated.
C31_ErrorsAreSummed ==
    generateAll.returned =>
        LET run == generateAll
            siblings == Siblings(run.tokens, run.startTokenIndex)
        IN /\ run.numErrors = SumOfErrors(run, siblings)
           /\ {run.steps[p].startToken :
                  p \in {q \in DOMAIN run.steps : run.steps[q].kind = "evaluated"}}
                 = siblings
           /\ run.scope # "ExpressionsOnly" =>
                  \A p \in DOMAIN run.output :
                      run.output[p].kind \in {"delimiter", "invocation"}

\* A call in Body scope has evaluated a Symbol, then a String, then an
\* invocation, and has returned the two errors of the first two.
C31_TwoErrorsThenInvocation ==
    /\ generateAll.returned
    /\ generateAll.scope = "Body"
    /\ generateAll.numErrors = 2
    /\ generateAll.failing = {}
    /\ Len(generateAll.tokens) >= 4
    /\ generateAll.startTokenIndex = 1
    /\ generateAll.tokens[1] = "Symbol"
    /\ generateAll.tokens[2] = "String"
    /\ generateAll.tokens[3] = "OpenParen"
    /\ \E p \in DOMAIN generateAll.output : generateAll.output[p].kind = "invocation"

\* The string fragments of the output that carry the contents of the token.
Emitted(run) ==
    {run.output[p] : p \in {q \in DOMAIN run.output :
                               /\ run.output[q].kind = "string"
                               /\ run.output[q].contents = run.contents}}

\* The contents begin with a quote, with a digit, or with a minus followed
\* by a digit or a dot.
LooksLiteral(contents) ==
    \/ contents[1] \in {"'", "1"}
    \/ Len(contents) >= 2 /\ contents[1] = "-" /\ contents[2] \in {"1", "."}

\* The run is the evaluation of one token of the given type in
\* ExpressionsOnly scope.
OneTokenEvaluated(run, type) ==
    /\ run.returned
    /\ run.tokens = <<type>>
    /\ run.startTokenIndex = 1
    /\ run.scope = "ExpressionsOnly"

\* C32: in ExpressionsOnly scope a Symbol token is emitted verbatim iff its
\* contents begin with a quote, a digit, or a minus followed by a digit or
\* a dot; every other symbol is emitted with the ConvertVariableName
\* modifier, and a String token with the SurroundWithQuotes modifier.
C32_LiteralOrConverted ==
    /\ OneTokenEvaluated(generateAll, "Symbol") =>
           /\ generateAll.numErrors = 0
           /\ Cardinality(Emitted(generateAll)) = 1
           /\ \A fragment \in Emitted(generateAll) :
                  fragment.modifier = IF LooksLiteral(generateAll.contents)
                                      THEN "None" ELSE "ConvertVariableName"
    /\ OneTokenEvaluated(generateAll, "String") =>
           /\ generateAll.numErrors = 0
           /\ Len(generateAll.output) = 1
           /\ generateAll.output[1].modifier = "SurroundWithQuotes"
           /\ generateAll.output[1].contents = generateAll.contents

\* A symbol that is a minus followed by a letter has been emitted with the
\* ConvertVariableName modifier.
C32_MinusLetterConverted ==
    /\ OneTokenEvaluated(generateAll, "Symbol")
    /\ generateAll.contents = <<"-", "a">>
    /\ ~generateAll.stateVariable
    /\ generateAll.output
           = <<Fragment("string", 1, "ConvertVariableName", <<"-", "a">>)>>

\* C33: while one definition is checked, the scan of its references is
\* repeated only if (and whenever) the previous scan moved a ReferenceStatus
\* from None to Guessed; the build driver guesses each status at most once,
\* so the number of scans of a check is bounded by the number of distinct
\* names and the loop terminates.
C33_RescanOnlyAfterGuess ==
    /\ \A check \in environment.ghost.checks :
           /\ check.rounds # <<>>
           /\ \A k \in DOMAIN check.rounds :
                  k < Len(check.rounds) <=> check.rounds[k] >= 1
           /\ Len(check.rounds) <= Cardinality(TableNames) + 1
    /\ \A p, q \in DOMAIN environment.ghost.guessLog :
           p # q => environment.ghost.guessLog[p] # environment.ghost.guessLog[q]

\* A check has scanned three times: the guess of the first scan created a
\* reference that the second scan guessed, and the third scan guessed
\* nothing.
C33_ThreeScans ==
    \E check \in environment.ghost.checks : check.rounds = <<1, 1, 0>>

\* C34: when the check of a required, not-loaded definition has finished,
\* none of the definition's ReferenceStatus entries is in state None, the
\* entries created during the check included.
C34_NoStatusLeftNone ==
    \A check \in environment.ghost.checks : check.statusNone = {}

\* C35: no splice Output ever holds two emissions of its call site at once:
\* an invocation is emitted into a splice Output that already holds an
\* emission only after the earlier content is cleared, for every way a
\* reference gets resolved.
C35_OneEmissionHeld ==
    \A id \in DOMAIN environment.spliceOutputs : Held(environment, id) <= 1

\* The names that have an entry in the macro or generator table.
InTables(env) == DOMAIN env.macros \cup DOMAIN env.generators

\* C36: during the fixed-point loop each compile-time definition has its
\* function installed in the macro or generator table at most once; a
\* definition with isLoaded true is never queued for build again; isLoaded
\* and table entries are never cleared or overwritten before teardown.
C36_InstalledOnce ==
    /\ [](\A n \in DOMAIN environment.definitions :
             /\ LoadCount(environment, n) <= 1
             /\ LoadCount(environment, n) = 1 => n \in InTables(environment)
             /\ environment.definitions[n].isLoaded =>
                    \A object \in DOMAIN definitionsToBuild :
                        definitionsToBuild[object].definition = n
                            => definitionsToBuild[object].stage = "Finished")
    /\ [][pc' # "destroyed" =>
             /\ \A n \in DOMAIN environment.macros :
                    n \in DOMAIN environment'.macros
                        /\ environment'.macros[n] = environment.macros[n]
             /\ \A n \in DOMAIN environment.generators :
                    n \in DOMAIN environment'.generators
                        /\ environment'.generators[n] = environment.generators[n]
             /\ LoadedDefinitions(environment) \subseteq LoadedDefinitions(environment')
             /\ \A object \in DOMAIN definitionsToBuild' :
                    object \notin DOMAIN definitionsToBuild =>
                        definitionsToBuild'[object].definition
                            \notin LoadedDefinitions(environment)]_vars

\* In a second pass a definition is queued while another one, loaded once in
\* the first pass, stays loaded and is not queued.
C36_LoadedStaysOut ==
    /\ environment.ghost.passes >= 2
    /\ \E n \in LoadedDefinitions(environment) :
           /\ LoadCount(environment, n) = 1
           /\ definitionsToBuild # <<>>
           /\ \A object \in DOMAIN definitionsToBuild :
                  /\ definitionsToBuild[object].definition # n
                  /\ definitionsToBuild[object].stage = "Finished"

\* n has no build object, no installed function and is not loaded.
NotBuilt(n) ==
    /\ ~environment.definitions[n].isLoaded
    /\ LoadCount(environment, n) = 0
    /\ \A object \in DOMAIN definitionsToBuild :
           definitionsToBuild[object].definition # n

\* C37: a build pass queues a definition only if it is a macro or generator,
\* is marked required and is not loaded: for a Function definition or for an
\* unrequired definition no source file is written, no subprocess is spawned,
\* no library is loaded and isLoaded is never set.
C37_OnlyRequiredCompileTime ==
    /\ \A object \in DOMAIN definitionsToBuild :
           LET definition == environment.definitions[definitionsToBuild[object].definition]
           IN /\ isCompileTimeObject(definition.type)
              /\ definition.isRequired
              /\ definition.isLoaded => definitionsToBuild[object].stage = "Finished"
    /\ running \subseteq DOMAIN definitionsToBuild
    /\ \A n \in DOMAIN environment.definitions :
           (~isCompileTimeObject(environment.definitions[n].type)
               \/ ~environment.definitions[n].isRequired) => NotBuilt(n)

\* After a pass that loaded a macro, a required function whose check found
\* nothing against building it and an unrequired macro are left unbuilt.
C37_FunctionAndUnrequiredLeft ==
    /\ pc = "done"
    /\ LoadedDefinitions(environment) # {}
    /\ \E n \in DOMAIN environment.definitions :
           /\ environment.definitions[n].type = "Function"
           /\ environment.definitions[n].isRequired
           /\ NotBuilt(n)
    /\ \E check \in environment.ghost.checks :
           /\ check.type = "Function"
           /\ check.canBuild
           /\ ~check.hasGuessedRefs
           /\ ~check.queued
    /\ \E n \in DOMAIN environment.definitions :
           /\ isCompileTimeObject(environment.definitions[n].type)
           /\ ~environment.definitions[n].isRequired
           /\ NotBuilt(n)

\* The position of a stage in enum BuildStage.
StageRank(stage) ==
    CASE stage = "None" -> 0
      [] stage = "Compiling" -> 1
      [] stage = "Linking" -> 2
      [] stage = "Loading" -> 3
      [] stage = "ResolvingReferences" -> 4
      [] stage = "Finished" -> 5

\* The build objects of the pass that the step leaves in the list.
SamePass == DOMAIN definitionsToBuild \cap DOMAIN definitionsToBuild'

\* What one step may do to the build objects and to isLoaded.
StageStep ==
    /\ \A object \in SamePass :
           LET before == definitionsToBuild[object]
               after == definitionsToBuild'[object]
           IN /\ after.definition = before.definition
              /\ StageRank(after.stage) >= StageRank(before.stage)
              /\ (before.stage = "None" /\ after.stage # "None") =>
                     \/ after.stage = "Compiling"
                     \/ after.stage = "Linking" /\ after.ghost.modified = "fresh"
              /\ (before.stage = "Compiling" /\ after.stage # "Compiling") =>
                     after.stage = "Linking"
    /\ \A created \in DOMAIN definitionsToBuild' \ DOMAIN definitionsToBuild :
           definitionsToBuild'[created].stage = "None"
    /\ pc' # "destroyed" =>
           \A n \in DOMAIN environment.definitions :
               (~environment.definitions[n].isLoaded
                    /\ environment'.definitions[n].isLoaded)
               <=> \E reached \in SamePass :
                      /\ definitionsToBuild[reached].definition = n
                      /\ definitionsToBuild[reached].stage # "Finished"
                      /\ definitionsToBuild'[reached].stage = "Finished"

\* C38: within a build pass the stage of a build object only moves forward in
\* the order None, Compiling, Linking, Loading, ResolvingReferences, Finished
\* (a fresh cache skips Compiling), and a definition's isLoaded becomes true
\* in a pass iff its build object reached Finished in that pass.
C38_StagesForward ==
    /\ [](\A object \in DOMAIN definitionsToBuild :
             definitionsToBuild[object].stage = "Finished"
                 <=> environment.definitions[definitionsToBuild[object].definition].isLoaded)
    /\ [][StageStep]_vars

\* One pass ends with a build object loaded from a fresh cache, which went
\* from None to Linking, and one loaded after its compiler and linker ran.
C38_FreshAndBuilt ==
    /\ PassEnded
    /\ \E object \in DOMAIN definitionsToBuild :
           /\ definitionsToBuild[object].stage = "Finished"
           /\ definitionsToBuild[object].ghost.modified = "fresh"
           /\ definitionsToBuild[object].ghost.compiles = 0
           /\ environment.definitions[definitionsToBuild[object].definition].isLoaded
    /\ \E object \in DOMAIN definitionsToBuild :
           /\ definitionsToBuild[object].stage = "Finished"
           /\ definitionsToBuild[object].ghost.compiles = 1
           /\ definitionsToBuild[object].ghost.links = 1
           /\ environment.definitions[definitionsToBuild[object].definition].isLoaded

\* C39: a build object reaches the load step in a pass only if either its
\* cached library was found fresh, or both its compile subprocess and its
\* link subprocess actually ran in that pass and exited with status 0; when
\* the link subprocess cannot be started, the definition is not loaded on
\* the strength of the compile step's status 0.
C39_LoadOnlyAfterBuild ==
    \A object \in DOMAIN definitionsToBuild :
        LoadAttempted(object) =>
            \/ /\ definitionsToBuild[object].ghost.modified = "fresh"
               /\ definitionsToBuild[object].ghost.compiles = 0
            \/ /\ definitionsToBuild[object].ghost.modified = "stale"
               /\ definitionsToBuild[object].ghost.compiles = 1
               /\ definitionsToBuild[object].ghost.links = 1
               /\ definitionsToBuild[object].status = 0
               /\ object \notin running

\* The compile-time definitions that d depends on, over any number of
\* compile-time references.
DependsOn(env, d) ==
    ReachableFrom(env, CompileTimeReferences(env, d))
        \cap {m \in DOMAIN env.definitions : isCompileTimeObject(env.definitions[m].type)}

\* d lies on a cycle of compile-time references, or depends on a definition
\* that does.
OnOrBehindCycle(env, d) ==
    \/ d \in DependsOn(env, d)
    \/ \E m \in DependsOn(env, d) : m \in DependsOn(env, m)

\* No source write, subprocess, library load or symbol lookup failed, the
\* installed macros and generators succeed when invoked, and no invocation
\* of a macro or generator on a reference returned an error.
EverythingSucceeds(env) ==
    /\ faults = 0
    /\ \A n \in DOMAIN env.macros : env.macros[n].succeeded /\ env.macros[n].balanced
    /\ \A n \in DOMAIN env.generators : env.generators[n]
    /\ \A i \in DOMAIN env.ghost.macroCalls : env.ghost.macroCalls[i].ok
    /\ numBuildResolveErrors = 0

====
